---- MODULE Spec2Model ----
(***************************************************************************)
(* The ledger engine of blockchain-settlement-system: Transaction, Block,  *)
(* Blockchain (chain, unspent-output index, balances, pool, retargeting),  *)
(* the Wallet that feeds it and the block store behind it.                  *)
(*                                                                         *)
(* Amounts are counted in tenths of a coin (Unit per coin), so that the    *)
(* fee 0.1 of the end-to-end scenario is the integer 1.                    *)
(* A SHA-256 digest is modelled by the hashed content itself (so that two  *)
(* digests are equal exactly when the contents are), and for a block, by   *)
(* the content preceded by the number of leading zero digits the digest    *)
(* has.  A signature is the pair of the signing key and the signed data.   *)
(***************************************************************************)
EXTENDS Integers, Sequences, FiniteSets, TLC

VARIABLES chain, difficulty, memPool, utxoSet, addressBalances, blockTimes,
          storedBlocks, metadata, now, last

vars == <<chain, difficulty, memPool, utxoSet, addressBalances, blockTimes,
          storedBlocks, metadata, now, last>>

ledger == <<chain, difficulty, memPool, utxoSet, addressBalances, blockTimes>>

----------------------------------------------------------------------------
(* Bounds of the model *)

MaxChain == 4         \* blocks in the chain, genesis included
MaxPool  == 2         \* transactions waiting in the pool
MaxTick  == 1         \* milliseconds the clock advances during a run
MaxNonce == 40        \* nonces a proof-of-work search may try
MaxTxs   == 2         \* transactions accepted during a run, pooled or in blocks
MaxSimpleChain == 3   \* blocks in the chain of the account ledger, genesis included
MaxLongChain == 21    \* blocks in a chain mined across two retarget points
MaxDifficulty == 5    \* the highest difficulty a block is mined at

(* Program constants *)

Unit == 10                           \* tenths of a coin per coin
initialReward == 50
halvingInterval == 210000
genesisDifficulty == 4
genesisTimestamp == 1231006505
initialDifficulty == 4
targetBlockTime == 600000
difficultyAdjustmentInterval == 10
maxTransactions == 100
StartTime == 1700000000              \* Date.now() when the run starts: later than
                                     \* the genesis timestamp by far more than
                                     \* 4 * targetBlockTime, as every real clock is

----------------------------------------------------------------------------
(* Keys and addresses.  Private keys are 1 and 2; 0 stands for the empty   *)
(* string in a publicKey field.                                            *)

PrivateKeys == {1, 2}

\* Signature.getPublicKey
getPublicKey(privateKey) == 100 + privateKey

\* Signature.publicKeyToAddress: '1' + hash160(publicKey), 41 characters
publicKeyToAddress(publicKey) ==
    CASE publicKey = 101 -> "A"
      [] publicKey = 102 -> "B"
      [] OTHER -> "none"

\* the genesis address of Block.createGenesisBlock, 34 characters, no key
GenesisAddress == "G"

Addresses == {"A", "B", GenesisAddress}

\* Signature.isValidAddress: 41 characters starting with '1'
isValidAddress(address) == address \in {"A", "B"}

\* Signature.sign: '' (no signature) is <<>>
NoSignature == <<>>
sign(data, privateKey) == <<privateKey, data>>

\* Signature.verify
verify(data, signature, publicKey) ==
    /\ Len(signature) = 2
    /\ getPublicKey(signature[1]) = publicKey
    /\ signature[2] = data

----------------------------------------------------------------------------
(* Transaction *)

ZeroTxId == <<0>>          \* '0'.repeat(64)
NoData == <<>>             \* data undefined, hashed as ''

\* the data signed for an input: Transaction.signTransaction
signatureData(input, timestamp) ==
    <<input.txId, input.outputIndex, input.amount, timestamp>>

\* Transaction.calculateHash: the id covers everything but signatures and fee
calculateHash(tx) ==
    << tx.timestamp,
       [i \in 1..Len(tx.inputs) |->
           << tx.inputs[i].txId, tx.inputs[i].outputIndex,
              tx.inputs[i].amount, tx.inputs[i].publicKey >>],
       tx.outputs, tx.version, tx.lockTime, tx.data >>

RECURSIVE SumAmounts(_)
SumAmounts(s) == IF s = <<>> THEN 0 ELSE s[1].amount + SumAmounts(Tail(s))

\* Transaction.calculateFee
calculateFee(tx) == SumAmounts(tx.inputs) - SumAmounts(tx.outputs)

\* Transaction.isCoinbase
isCoinbase(tx) ==
    /\ Len(tx.inputs) = 1
    /\ tx.inputs[1].txId = ZeroTxId
    /\ tx.inputs[1].outputIndex = -1

\* Transaction.verifySignatures
verifySignatures(tx) ==
    \A i \in 1..Len(tx.inputs) :
        /\ tx.inputs[i].signature # NoSignature
        /\ tx.inputs[i].publicKey # 0
        /\ verify(signatureData(tx.inputs[i], tx.timestamp),
                  tx.inputs[i].signature, tx.inputs[i].publicKey)

AllOutputsPositive(tx) == \A i \in 1..Len(tx.outputs) : tx.outputs[i].amount > 0

\* Transaction.isValid as it would be without the check of the fee
isValidFeeUnchecked(tx) ==
    IF Len(tx.inputs) = 0 /\ Len(tx.outputs) = 0 THEN FALSE
    ELSE IF isCoinbase(tx) THEN AllOutputsPositive(tx)
    ELSE IF ~verifySignatures(tx) THEN FALSE
    ELSE AllOutputsPositive(tx)

\* Transaction.isValid, the boolean it returns
isValid(tx) ==
    IF Len(tx.inputs) = 0 /\ Len(tx.outputs) = 0 THEN FALSE
    ELSE IF isCoinbase(tx) THEN AllOutputsPositive(tx)
    ELSE IF ~verifySignatures(tx) THEN FALSE
    ELSE IF ~AllOutputsPositive(tx) THEN FALSE
    ELSE calculateFee(tx) >= 0

\* Transaction.isValid, the object it leaves: the fee is recomputed once the
\* signatures and the output amounts have passed
afterIsValid(tx) ==
    IF /\ ~(Len(tx.inputs) = 0 /\ Len(tx.outputs) = 0)
       /\ ~isCoinbase(tx)
       /\ verifySignatures(tx)
       /\ AllOutputsPositive(tx)
    THEN [tx EXCEPT !.fee = calculateFee(tx)]
    ELSE tx

\* new Transaction(inputs, outputs) at time t
NewTransaction(inputs, outputs, t) ==
    LET tx == [id |-> <<>>, timestamp |-> t, inputs |-> inputs, outputs |-> outputs,
               fee |-> 0, version |-> 1, lockTime |-> 0, data |-> NoData]
    IN  [tx EXCEPT !.id = calculateHash(tx)]

\* Transaction.createCoinbase
createCoinbase(minerAddress, reward, blockHeight, t) ==
    LET tx == [id |-> <<>>, timestamp |-> t,
               inputs |-> << [txId |-> ZeroTxId, outputIndex |-> -1,
                              signature |-> NoSignature, publicKey |-> 0,
                              amount |-> reward] >>,
               outputs |-> << [address |-> minerAddress, amount |-> reward] >>,
               fee |-> 0, version |-> 1, lockTime |-> 0,
               data |-> <<"Coinbase for block", blockHeight>>]
    IN  [tx EXCEPT !.id = calculateHash(tx)]

\* Transaction.signTransaction on every input, as Wallet.createTransaction does
signAll(tx, privateKey) ==
    [tx EXCEPT !.inputs =
        [i \in 1..Len(tx.inputs) |->
            [tx.inputs[i] EXCEPT !.signature =
                sign(signatureData(tx.inputs[i], tx.timestamp), privateKey)]]]

IndexOutOfBounds == "Input index out of bounds"
KeyMismatch == "Private key does not match input public key"
UndefinedInput == "TypeError: Cannot read properties of undefined"
Signed == "signed"

\* Transaction.signTransaction(privateKey, inputIndex): how the call ends.  An
\* index below zero passes the bounds check and reads no input
signOutcome(tx, privateKey, inputIndex) ==
    IF inputIndex >= Len(tx.inputs) THEN IndexOutOfBounds
    ELSE IF inputIndex < 0 THEN UndefinedInput
    ELSE IF tx.inputs[inputIndex + 1].publicKey # getPublicKey(privateKey) THEN KeyMismatch
    ELSE Signed

\* Transaction.signTransaction(privateKey, inputIndex): the object it leaves
signTransaction(tx, privateKey, inputIndex) ==
    IF signOutcome(tx, privateKey, inputIndex) # Signed THEN tx
    ELSE [tx EXCEPT !.inputs[inputIndex + 1].signature =
             sign(signatureData(tx.inputs[inputIndex + 1], tx.timestamp), privateKey)]

\* Transaction.getSize: the length of the JSON text, by its parts
TxBaseSize == 120
InputBaseSize == 130
SignatureSize == 142
PublicKeySize == 130
OutputSize == 70
inputSize(input) ==
    InputBaseSize + (IF input.signature = NoSignature THEN 0 ELSE SignatureSize)
                  + (IF input.publicKey = 0 THEN 0 ELSE PublicKeySize)
RECURSIVE SumInputSizes(_)
SumInputSizes(s) == IF s = <<>> THEN 0 ELSE inputSize(s[1]) + SumInputSizes(Tail(s))
getSize(tx) == TxBaseSize + SumInputSizes(tx.inputs) + OutputSize * Len(tx.outputs)

----------------------------------------------------------------------------
(* Hash *)

\* Hash.sha256 of a string, and of the concatenation of two digests
sha256(data) == <<data>>
sha256pair(left, right) == <<left, right>>
EmptyDigest == <<>>                       \* Hash.sha256('')

\* one level of the Merkle tree: pairs hashed, an odd last node paired with itself
RECURSIVE merkleLevel(_)
merkleLevel(level) ==
    IF level = <<>> THEN <<>>
    ELSE IF Len(level) = 1 THEN << sha256pair(level[1], level[1]) >>
    ELSE << sha256pair(level[1], level[2]) >> \o merkleLevel(Tail(Tail(level)))

RECURSIVE merkleReduce(_)
merkleReduce(level) ==
    IF Len(level) = 1 THEN level[1] ELSE merkleReduce(merkleLevel(level))

\* Hash.calculateMerkleRoot
calculateMerkleRoot(ids) ==
    IF Len(ids) = 0 THEN EmptyDigest
    ELSE IF Len(ids) = 1 THEN sha256(ids[1])
    ELSE merkleReduce([i \in 1..Len(ids) |-> sha256(ids[i])])

\* Hash.meetsDifficulty: the first `difficulty` digits of the digest are '0'
meetsDifficulty(hash, d) == hash[1] >= d

\* Hash.adjustDifficulty as it would be without the floor of the decrease
adjustDifficultyToUnfloored(currentDifficulty, timeExpected, timeActualSum, timeActualCount) ==
    IF timeActualSum > 4 * timeExpected * timeActualCount
    THEN currentDifficulty - 1
    ELSE IF 4 * timeActualSum < timeExpected * timeActualCount
    THEN currentDifficulty + 1
    ELSE currentDifficulty

\* Hash.adjustDifficulty: ratio = timeActual / timeExpected
adjustDifficultyTo(currentDifficulty, timeExpected, timeActualSum, timeActualCount) ==
    IF timeActualSum > 4 * timeExpected * timeActualCount
    THEN (IF currentDifficulty - 1 > 1 THEN currentDifficulty - 1 ELSE 1)
    ELSE IF 4 * timeActualSum < timeExpected * timeActualCount
    THEN currentDifficulty + 1
    ELSE currentDifficulty

----------------------------------------------------------------------------
(* Block *)

ZeroHash == <<64, <<>>>>                  \* '0'.repeat(64)
HashDigits == 64

\* the leading '0' digits of the digest of a header: each further digit is
\* zero for half of the nonces that make the digits before it zero
RECURSIVE trailingZeros(_)
trailingZeros(n) == IF n % 2 = 1 THEN 0 ELSE 1 + trailingZeros(n \div 2)

headerSalt(header) ==
    1 + ((header.timestamp + header.height + header.difficulty) % 15)

leadingZeros(header) == trailingZeros(headerSalt(header) + header.nonce)

\* Block.calculateHash: the digest of the seven header fields
blockHash(header) ==
    << leadingZeros(header),
       << header.version, header.previousHash, header.merkleRoot, header.timestamp,
          header.difficulty, header.nonce, header.height >> >>

txIds(transactions) == [i \in 1..Len(transactions) |-> transactions[i].id]

\* Block.calculateMerkleRoot
blockMerkleRoot(block) ==
    IF Len(block.transactions) = 0 THEN EmptyDigest
    ELSE calculateMerkleRoot(txIds(block.transactions))

\* Block.updateHash
updateHash(block) ==
    LET h == [block.header EXCEPT !.merkleRoot = blockMerkleRoot(block)]
    IN  [block EXCEPT !.header = h, !.hash = blockHash(h)]

\* new Block(transactions, previousHash, height, difficulty) at time t
NewBlock(transactions, previousHash, height, d, t) ==
    updateHash([header |-> [version |-> 1, previousHash |-> previousHash,
                            merkleRoot |-> EmptyDigest, timestamp |-> t,
                            difficulty |-> d, nonce |-> 0, height |-> height],
                transactions |-> transactions,
                hash |-> ZeroHash])

\* the loop of Block.mineBlock: the nonce goes up by one until the hash starts
\* with the target
RECURSIVE mineFrom(_, _)
mineFrom(block, target) ==
    IF meetsDifficulty(block.hash, target) \/ block.header.nonce >= MaxNonce
    THEN block
    ELSE mineFrom(updateHash([block EXCEPT !.header.nonce = @ + 1]), target)

\* Block.mineBlock as it would be if it stopped after its first attempt
mineBlockPoWOneAttempt(block, d) ==
    updateHash([block EXCEPT !.header.nonce = 0])

\* Block.mineBlock(difficulty?): a missing or zero argument means the header's own
mineBlockPoW(block, d) ==
    LET targetDifficulty == IF d # 0 THEN d ELSE block.header.difficulty
    IN  mineFrom(updateHash([block EXCEPT !.header.nonce = 0]), targetDifficulty)

HasDuplicates(s) == \E i, j \in 1..Len(s) : i < j /\ s[i] = s[j]

coinbaseIndexes(block) ==
    {i \in 1..Len(block.transactions) : isCoinbase(block.transactions[i])}

\* Block.isValid as it would be without the comparison of the stored hash with
\* the recomputed one
blockIsValidHashUnchecked(block, previousBlock) ==
    /\ meetsDifficulty(block.hash, block.header.difficulty)
    /\ block.header.previousHash = previousBlock.hash
    /\ block.header.height = previousBlock.header.height + 1
    /\ block.header.merkleRoot = blockMerkleRoot(block)
    /\ \A i \in 1..Len(block.transactions) : isValid(block.transactions[i])
    /\ ~HasDuplicates(txIds(block.transactions))
    /\ Cardinality(coinbaseIndexes(block)) <= 1
    /\ (Cardinality(coinbaseIndexes(block)) = 1 => 1 \in coinbaseIndexes(block))

\* Block.isValid(previousBlock): this model always passes a previous block
blockIsValid(block, previousBlock) ==
    /\ block.hash = blockHash(block.header)
    /\ meetsDifficulty(block.hash, block.header.difficulty)
    /\ block.header.previousHash = previousBlock.hash
    /\ block.header.height = previousBlock.header.height + 1
    /\ block.header.merkleRoot = blockMerkleRoot(block)
    /\ \A i \in 1..Len(block.transactions) : isValid(block.transactions[i])
    /\ ~HasDuplicates(txIds(block.transactions))
    /\ Cardinality(coinbaseIndexes(block)) <= 1
    /\ (Cardinality(coinbaseIndexes(block)) = 1 => 1 \in coinbaseIndexes(block))

\* the block object after Block.isValid has run Transaction.isValid on its
\* transactions (up to the first check that fails)
blockAfterIsValid(block) ==
    [block EXCEPT !.transactions =
        [i \in 1..Len(block.transactions) |-> afterIsValid(block.transactions[i])]]

RECURSIVE Pow2(_)
Pow2(n) == IF n = 0 THEN 1 ELSE 2 * Pow2(n - 1)

\* getBlockReward as it would be if the reward halved one block late
getBlockRewardInLateHalving(height, unit) ==
    (initialReward * unit) \div
        Pow2(IF height = 0 THEN 0 ELSE (height - 1) \div halvingInterval)

\* Block.getBlockReward, in units of 1/unit of a coin
getBlockRewardIn(height, unit) ==
    (initialReward * unit) \div Pow2(height \div halvingInterval)

\* Block.getBlockReward, in tenths of a coin
getBlockReward(height) == getBlockRewardIn(height, Unit)

\* Block.createGenesisBlock
createGenesisBlock ==
    LET b == NewBlock(<< createCoinbase(GenesisAddress, 50 * Unit, 0, StartTime) >>,
                      ZeroHash, 0, genesisDifficulty, StartTime)
        g == [b EXCEPT !.header.timestamp = genesisTimestamp]
    IN  mineBlockPoW(g, 0)

----------------------------------------------------------------------------
(* Blockchain: the unspent-output index (a Map, in insertion order) and the *)
(* address balances (a Map)                                                 *)

utxoHas(utxos, txId, outputIndex) ==
    \E i \in 1..Len(utxos) : utxos[i].txId = txId /\ utxos[i].outputIndex = outputIndex

utxoGet(utxos, txId, outputIndex) ==
    utxos[CHOOSE i \in 1..Len(utxos) :
              utxos[i].txId = txId /\ utxos[i].outputIndex = outputIndex]

utxoDelete(utxos, txId, outputIndex) ==
    SelectSeq(utxos, LAMBDA u : ~(u.txId = txId /\ u.outputIndex = outputIndex))

\* Map.set: an existing key keeps its place
utxoPut(utxos, utxo) ==
    IF utxoHas(utxos, utxo.txId, utxo.outputIndex)
    THEN [i \in 1..Len(utxos) |->
             IF utxos[i].txId = utxo.txId /\ utxos[i].outputIndex = utxo.outputIndex
             THEN utxo ELSE utxos[i]]
    ELSE Append(utxos, utxo)

balanceGet(balances, address) ==
    IF address \in DOMAIN balances THEN balances[address] ELSE 0

balanceSet(balances, address, value) ==
    [a \in (DOMAIN balances) \cup {address} |->
        IF a = address THEN value ELSE balances[a]]

\* a non-coinbase input as Blockchain tells it: a non-empty txId and an index >= 0
isSpendingInput(input) == input.txId # <<>> /\ input.outputIndex >= 0

\* Blockchain.updateUTXOSet, the inputs of one transaction
RECURSIVE spendInputs(_, _)
spendInputs(st, inputs) ==
    IF inputs = <<>> THEN st
    ELSE LET input == inputs[1]
             next ==
               IF isSpendingInput(input) /\ utxoHas(st.utxos, input.txId, input.outputIndex)
               THEN LET utxo == utxoGet(st.utxos, input.txId, input.outputIndex)
                    IN  [utxos |-> utxoDelete(st.utxos, input.txId, input.outputIndex),
                         balances |-> balanceSet(st.balances, utxo.address,
                                         balanceGet(st.balances, utxo.address) - utxo.amount)]
               ELSE st
         IN  spendInputs(next, Tail(inputs))

\* Blockchain.updateUTXOSet, the outputs of one transaction from index `index` on
RECURSIVE addOutputs(_, _, _, _)
addOutputs(st, tx, index, height) ==
    IF index > Len(tx.outputs) THEN st
    ELSE LET output == tx.outputs[index]
             utxo == [txId |-> tx.id, outputIndex |-> index - 1,
                      address |-> output.address, amount |-> output.amount,
                      blockHeight |-> height]
         IN  addOutputs([utxos |-> utxoPut(st.utxos, utxo),
                         balances |-> balanceSet(st.balances, output.address,
                                         balanceGet(st.balances, output.address) + output.amount)],
                        tx, index + 1, height)

RECURSIVE applyTransactions(_, _, _)
applyTransactions(st, transactions, height) ==
    IF transactions = <<>> THEN st
    ELSE applyTransactions(
             addOutputs(spendInputs(st, transactions[1].inputs), transactions[1], 1, height),
             Tail(transactions), height)

\* Blockchain.updateUTXOSet
updateUTXOSet(st, block) == applyTransactions(st, block.transactions, block.header.height)

EmptyIndex == [utxos |-> <<>>, balances |-> <<>>]

\* Blockchain.getUTXOsForAddress
getUTXOsForAddress(address) == SelectSeq(utxoSet, LAMBDA u : u.address = address)

\* Blockchain.getAddressBalance
getAddressBalance(address) == balanceGet(addressBalances, address)

\* Blockchain.getLatestBlock
getLatestBlock == chain[Len(chain)]

\* Blockchain.isTransactionInBlockchain
isTransactionInBlockchain(txId) ==
    \E b \in 1..Len(chain) :
        \E i \in 1..Len(chain[b].transactions) : chain[b].transactions[i].id = txId

\* removeTransactionsFromMemPool as it would be if it looked at the block's
\* first transaction only
removeFirstTransactionFromMemPool(pool, transactions) ==
    SelectSeq(pool, LAMBDA tx : transactions = <<>> \/ transactions[1].id # tx.id)

\* Blockchain.removeTransactionsFromMemPool
removeTransactionsFromMemPool(pool, transactions) ==
    SelectSeq(pool, LAMBDA tx :
        ~\E i \in 1..Len(transactions) : transactions[i].id = tx.id)

\* Blockchain.updateBlockTimes, with the block already at the end of `newChain`
updateBlockTimes(times, newChain, block) ==
    IF Len(newChain) > 1
    THEN LET pushed == Append(times, block.header.timestamp
                                      - newChain[Len(newChain) - 1].header.timestamp)
         IN  IF Len(pushed) > difficultyAdjustmentInterval THEN Tail(pushed) ELSE pushed
    ELSE times

RECURSIVE SumSeq(_)
SumSeq(s) == IF s = <<>> THEN 0 ELSE s[1] + SumSeq(Tail(s))

\* Blockchain.adjustDifficulty: the difficulty mineBlock goes on with
adjustDifficulty ==
    IF Len(chain) % difficultyAdjustmentInterval = 0 /\ Len(chain) > 0
    THEN adjustDifficultyTo(difficulty, targetBlockTime, SumSeq(blockTimes), Len(blockTimes))
    ELSE difficulty

\* the comparison of selectTransactionsForMining: a goes before b when its fee
\* per byte is higher
higherFeeRate(a, b) == a.fee * getSize(b) > b.fee * getSize(a)

\* Array.sort is stable: an element goes behind those that do not yield to it
RECURSIVE insertByFeeRate(_, _)
insertByFeeRate(sorted, tx) ==
    IF sorted = <<>> THEN <<tx>>
    ELSE IF higherFeeRate(tx, sorted[1]) THEN <<tx>> \o sorted
    ELSE <<sorted[1]>> \o insertByFeeRate(Tail(sorted), tx)

RECURSIVE sortByFeeRate(_, _)
sortByFeeRate(sorted, rest) ==
    IF rest = <<>> THEN sorted
    ELSE sortByFeeRate(insertByFeeRate(sorted, rest[1]), Tail(rest))

\* selectTransactionsForMining as it would be without the sort: the valid
\* pooled transactions in pool order
selectTransactionsUnsorted(cap) ==
    LET valid == SelectSeq(memPool, isValid)
        kept == [i \in 1..Len(valid) |-> afterIsValid(valid[i])]
    IN  SubSeq(kept, 1, IF Len(kept) < cap THEN Len(kept) ELSE cap)

\* Blockchain.selectTransactionsForMining(maxTransactions), for a cap that is
\* not negative
selectTransactionsUpTo(cap) ==
    LET valid == SelectSeq(memPool, isValid)
        sorted == sortByFeeRate(<<>>, [i \in 1..Len(valid) |-> afterIsValid(valid[i])])
    IN  SubSeq(sorted, 1, IF Len(sorted) < cap THEN Len(sorted) ELSE cap)

\* Blockchain.selectTransactionsForMining(), as mineBlock calls it
selectTransactionsForMining == selectTransactionsUpTo(maxTransactions)

RECURSIVE sumBalances(_, _)
sumBalances(balances, addresses) ==
    IF addresses = {} THEN 0
    ELSE LET a == CHOOSE x \in addresses : TRUE
         IN  balances[a] + sumBalances(balances, addresses \ {a})

\* Blockchain.getStats().totalSupply: the sum of the values of addressBalances
totalSupply == sumBalances(addressBalances, DOMAIN addressBalances)

\* Blockchain.isChainValid on a chain
chainIsValid(c) == \A i \in 2..Len(c) : blockIsValid(c[i], c[i - 1])

\* Blockchain.isChainValid
isChainValid == chainIsValid(chain)

----------------------------------------------------------------------------
(* BlockchainStorage: the rows of the blocks table, by height, and the      *)
(* metadata table                                                           *)

\* BlockchainStorage.saveBlock: INSERT OR REPLACE by height
saveBlock(stored, block) ==
    [h \in (DOMAIN stored) \cup {block.header.height} |->
        IF h = block.header.height THEN block ELSE stored[h]]

\* BlockchainStorage.setMetadata for the two keys the ledger writes
setMetadata(d, height) == [difficulty |-> d, latest_height |-> height]

----------------------------------------------------------------------------
\* Transaction.toJSON as it would be if inputs were written as calculateHash
\* writes them, without their signatures
toJSONUnsigned(tx) ==
    [id |-> tx.id, timestamp |-> tx.timestamp,
     inputs |-> [i \in 1..Len(tx.inputs) |->
                    [tx.inputs[i] EXCEPT !.signature = NoSignature]],
     outputs |-> tx.outputs, fee |-> tx.fee, version |-> tx.version,
     lockTime |-> tx.lockTime, data |-> tx.data]

\* Transaction.toJSON: the eight fields; an undefined data is left out
toJSON(tx) ==
    [id |-> tx.id, timestamp |-> tx.timestamp, inputs |-> tx.inputs,
     outputs |-> tx.outputs, fee |-> tx.fee, version |-> tx.version,
     lockTime |-> tx.lockTime, data |-> tx.data]

\* Transaction.fromJSON as it would be without the five fields restored after
\* construction: the object is a new transaction made at time t
fromJSONFresh(json, t) ==
    LET tx == [NewTransaction(json.inputs, json.outputs, t) EXCEPT !.data = json.data]
    IN  tx

\* Transaction.fromJSON at time t: a new transaction, then id, timestamp, fee,
\* version and lockTime are restored
fromJSON(json, t) ==
    LET tx == [NewTransaction(json.inputs, json.outputs, t) EXCEPT !.data = json.data]
    IN  [tx EXCEPT !.id = json.id, !.timestamp = json.timestamp, !.fee = json.fee,
                   !.version = json.version, !.lockTime = json.lockTime]

\* Block.toJSON
blockToJSON(block) ==
    [header |-> block.header,
     transactions |-> [i \in 1..Len(block.transactions) |-> toJSON(block.transactions[i])],
     hash |-> block.hash]

\* Block.fromJSON at time t: a new block over the parsed transactions, then
\* header and hash are restored
blockFromJSON(json, t) ==
    LET transactions == [i \in 1..Len(json.transactions) |->
                            fromJSON(json.transactions[i], t)]
        block == NewBlock(transactions, json.header.previousHash, json.header.height,
                          json.header.difficulty, t)
    IN  [block EXCEPT !.header = json.header, !.hash = json.hash]

\* the heights of the stored rows in ascending order
RECURSIVE ascending(_)
ascending(heights) ==
    IF heights = {} THEN <<>>
    ELSE LET least == CHOOSE h \in heights : \A g \in heights : h <= g
         IN  <<least>> \o ascending(heights \ {least})

\* BlockchainStorage.loadAllBlocks at time t: SELECT block_data ORDER BY height
loadAllBlocks(t) ==
    LET heights == ascending(DOMAIN storedBlocks)
    IN  [i \in 1..Len(heights) |->
            blockFromJSON(blockToJSON(storedBlocks[heights[i]]), t)]

RECURSIVE replayBlocks(_, _)
replayBlocks(st, blocks) ==
    IF blocks = <<>> THEN st
    ELSE replayBlocks(updateUTXOSet(st, blocks[1]), Tail(blocks))

\* the block times rebuildMemoryStructures collects: the differences of the
\* timestamps of consecutive blocks, of which the most recent are kept
rebuildBlockTimes(blocks) ==
    LET times == [i \in 1..(Len(blocks) - 1) |->
                     blocks[i + 1].header.timestamp - blocks[i].header.timestamp]
    IN  IF Len(times) > difficultyAdjustmentInterval
        THEN SubSeq(times, Len(times) - difficultyAdjustmentInterval + 1, Len(times))
        ELSE times

\* Blockchain.rebuildMemoryStructures over the loaded chain
rebuildMemoryStructures(blocks) ==
    LET st == replayBlocks(EmptyIndex, blocks)
    IN  [chain |-> blocks, utxos |-> st.utxos, balances |-> st.balances,
         blockTimes |-> rebuildBlockTimes(blocks),
         difficulty |-> metadata.difficulty]

(* Blockchain.addBlock, as a function of the ledger it finds.  `d` is the   *)
(* ledger difficulty at the call, `saved` the answer of saveBlock.          *)

Ledger(d) ==
    [ret |-> FALSE, chain |-> chain, difficulty |-> d, memPool |-> memPool,
     utxoSet |-> utxoSet, addressBalances |-> addressBalances,
     blockTimes |-> blockTimes, storedBlocks |-> storedBlocks, metadata |-> metadata]

\* addBlock as it would be with the index and the pool updated before the
\* block is validated, and only the chain restored on rejection
addBlockAppliedFirst(block, d, saved) ==
    LET previousBlock == getLatestBlock
        b == blockAfterIsValid(block)
        newChain == Append(chain, b)
        st == updateUTXOSet([utxos |-> utxoSet, balances |-> addressBalances], b)
        rejected == \/ ~blockIsValid(block, previousBlock)
                    \/ block.header.height # previousBlock.header.height + 1
                    \/ ~saved
    IN  [ret |-> ~rejected,
         chain |-> IF rejected THEN chain ELSE newChain,
         difficulty |-> d,
         memPool |-> removeTransactionsFromMemPool(memPool, b.transactions),
         utxoSet |-> st.utxos,
         addressBalances |-> st.balances,
         blockTimes |-> IF rejected THEN blockTimes
                        ELSE updateBlockTimes(blockTimes, newChain, b),
         storedBlocks |-> IF rejected THEN storedBlocks ELSE saveBlock(storedBlocks, b),
         metadata |-> IF rejected THEN metadata ELSE setMetadata(d, b.header.height)]

\* addBlock as it would be without the validation of the block against the tip
addBlockUnchecked(block, d, saved) ==
    IF ~saved THEN Ledger(d)
    ELSE LET b == blockAfterIsValid(block)
             newChain == Append(chain, b)
             st == updateUTXOSet([utxos |-> utxoSet, balances |-> addressBalances], b)
         IN  [ret |-> TRUE,
              chain |-> newChain,
              difficulty |-> d,
              memPool |-> removeTransactionsFromMemPool(memPool, b.transactions),
              utxoSet |-> st.utxos,
              addressBalances |-> st.balances,
              blockTimes |-> updateBlockTimes(blockTimes, newChain, b),
              storedBlocks |-> saveBlock(storedBlocks, b),
              metadata |-> setMetadata(d, b.header.height)]

\* addBlock as it would be if a failed save left the block on the chain
addBlockNoRollback(block, d, saved) ==
    LET previousBlock == getLatestBlock
    IN  IF ~blockIsValid(block, previousBlock) THEN Ledger(d)
        ELSE IF block.header.height # previousBlock.header.height + 1 THEN Ledger(d)
        ELSE LET b == blockAfterIsValid(block)
                 newChain == Append(chain, b)
                 st == updateUTXOSet([utxos |-> utxoSet, balances |-> addressBalances], b)
             IN  IF ~saved THEN [Ledger(d) EXCEPT !.chain = newChain]
                 ELSE [ret |-> TRUE,
                       chain |-> newChain,
                       difficulty |-> d,
                       memPool |-> removeTransactionsFromMemPool(memPool, b.transactions),
                       utxoSet |-> st.utxos,
                       addressBalances |-> st.balances,
                       blockTimes |-> updateBlockTimes(blockTimes, newChain, b),
                       storedBlocks |-> saveBlock(storedBlocks, b),
                       metadata |-> setMetadata(d, b.header.height)]

\* Blockchain.addBlock
addBlock(block, d, saved) ==
    LET previousBlock == getLatestBlock
    IN  IF ~blockIsValid(block, previousBlock) THEN Ledger(d)
        ELSE IF block.header.height # previousBlock.header.height + 1 THEN Ledger(d)
        ELSE IF ~saved THEN Ledger(d)
        ELSE LET b == blockAfterIsValid(block)
                 newChain == Append(chain, b)
                 st == updateUTXOSet([utxos |-> utxoSet, balances |-> addressBalances], b)
             IN  [ret |-> TRUE,
                  chain |-> newChain,
                  difficulty |-> d,
                  memPool |-> removeTransactionsFromMemPool(memPool, b.transactions),
                  utxoSet |-> st.utxos,
                  addressBalances |-> st.balances,
                  blockTimes |-> updateBlockTimes(blockTimes, newChain, b),
                  storedBlocks |-> saveBlock(storedBlocks, b),
                  metadata |-> setMetadata(d, b.header.height)]

Install(L) ==
    /\ chain' = L.chain
    /\ difficulty' = L.difficulty
    /\ memPool' = L.memPool
    /\ utxoSet' = L.utxoSet
    /\ addressBalances' = L.addressBalances
    /\ blockTimes' = L.blockTimes
    /\ storedBlocks' = L.storedBlocks
    /\ metadata' = L.metadata

\* Blockchain.mineBlock as it would be with a coinbase paying the block reward
\* alone, the fees of the selected transactions left out
assembleBlockRewardOnly(minerAddress, d, t) ==
    LET selectedTransactions == selectTransactionsForMining
        blockReward == getBlockReward(Len(chain))
        coinbaseTransaction == createCoinbase(minerAddress, blockReward, Len(chain), t)
        previousBlock == getLatestBlock
        newBlock == NewBlock(<<coinbaseTransaction>> \o selectedTransactions,
                             previousBlock.hash, previousBlock.header.height + 1, d, t)
    IN  mineBlockPoW(newBlock, d)

\* Blockchain.mineBlock: the block it assembles and mines at time t
assembleBlock(minerAddress, d, t) ==
    LET selectedTransactions == selectTransactionsForMining
        blockReward == getBlockReward(Len(chain))
        totalFees == SumSeq([i \in 1..Len(selectedTransactions) |->
                                selectedTransactions[i].fee])
        coinbaseTransaction ==
            createCoinbase(minerAddress, blockReward + totalFees, Len(chain), t)
        previousBlock == getLatestBlock
        newBlock == NewBlock(<<coinbaseTransaction>> \o selectedTransactions,
                             previousBlock.hash, previousBlock.header.height + 1, d, t)
    IN  mineBlockPoW(newBlock, d)

\* Blockchain.addTransaction as it would be if the pool reserved the outputs its
\* transactions name: an input already named by a pooled transaction is refused
addTransactionReserving(tx) ==
    IF ~isValid(tx) THEN FALSE
    ELSE IF \E i \in 1..Len(memPool) : memPool[i].id = tx.id THEN FALSE
    ELSE IF isTransactionInBlockchain(tx.id) THEN FALSE
    ELSE IF \E i \in 1..Len(memPool) : \E j \in 1..Len(memPool[i].inputs) :
              \E k \in 1..Len(tx.inputs) :
                  /\ memPool[i].inputs[j].txId = tx.inputs[k].txId
                  /\ memPool[i].inputs[j].outputIndex = tx.inputs[k].outputIndex
         THEN FALSE
    ELSE \A i \in 1..Len(tx.inputs) :
            \/ tx.inputs[i].txId = <<>>
            \/ tx.inputs[i].outputIndex < 0
            \/ utxoHas(utxoSet, tx.inputs[i].txId, tx.inputs[i].outputIndex)

\* Blockchain.addTransaction: the boolean it returns
addTransaction(tx) ==
    IF ~isValid(tx) THEN FALSE
    ELSE IF \E i \in 1..Len(memPool) : memPool[i].id = tx.id THEN FALSE
    ELSE IF isTransactionInBlockchain(tx.id) THEN FALSE
    ELSE \A i \in 1..Len(tx.inputs) :
            \/ tx.inputs[i].txId = <<>>
            \/ tx.inputs[i].outputIndex < 0
            \/ utxoHas(utxoSet, tx.inputs[i].txId, tx.inputs[i].outputIndex)

----------------------------------------------------------------------------
(* Wallet, holding the accounts of both private keys *)

WalletAccounts == {"A", "B"}
privateKeyOf(address) == IF address = "A" THEN 1 ELSE 2

\* the sort of Wallet.createTransaction: largest amount first, stable
RECURSIVE insertByAmount(_, _)
insertByAmount(sorted, utxo) ==
    IF sorted = <<>> THEN <<utxo>>
    ELSE IF utxo.amount > sorted[1].amount THEN <<utxo>> \o sorted
    ELSE <<sorted[1]>> \o insertByAmount(Tail(sorted), utxo)

RECURSIVE sortByAmount(_, _)
sortByAmount(sorted, rest) ==
    IF rest = <<>> THEN sorted
    ELSE sortByAmount(insertByAmount(sorted, rest[1]), Tail(rest))

\* the selection loop of Wallet.createTransaction
RECURSIVE selectUTXOs(_, _, _, _)
selectUTXOs(selected, total, rest, requiredAmount) ==
    IF rest = <<>> THEN selected
    ELSE IF total + rest[1].amount >= requiredAmount THEN Append(selected, rest[1])
    ELSE selectUTXOs(Append(selected, rest[1]), total + rest[1].amount,
                     Tail(rest), requiredAmount)

NoTx ==
    [id |-> <<>>, timestamp |-> 0, inputs |-> <<>>, outputs |-> <<>>,
     fee |-> 0, version |-> 1, lockTime |-> 0, data |-> NoData]

\* Wallet.createTransaction at time t; NoTx stands for null
createTransaction(fromAddress, toAddress, amount, fee, t) ==
    IF fromAddress \notin WalletAccounts THEN NoTx
    ELSE IF ~isValidAddress(toAddress) THEN NoTx
    ELSE LET utxos == getUTXOsForAddress(fromAddress)
             selectedUTXOs == selectUTXOs(<<>>, 0, sortByAmount(<<>>, utxos), amount + fee)
             totalInput == SumAmounts(selectedUTXOs)
             inputs == [i \in 1..Len(selectedUTXOs) |->
                          [txId |-> selectedUTXOs[i].txId,
                           outputIndex |-> selectedUTXOs[i].outputIndex,
                           signature |-> NoSignature,
                           publicKey |-> getPublicKey(privateKeyOf(fromAddress)),
                           amount |-> selectedUTXOs[i].amount]]
             change == totalInput - amount - fee
             outputs == <<[address |-> toAddress, amount |-> amount]>>
                        \o (IF change > 0
                            THEN <<[address |-> fromAddress, amount |-> change]>>
                            ELSE <<>>)
             signed == signAll(NewTransaction(inputs, outputs, t), privateKeyOf(fromAddress))
         IN  IF Len(utxos) = 0 THEN NoTx
             ELSE IF totalInput < amount + fee THEN NoTx
             ELSE [signed EXCEPT !.fee = calculateFee(signed), !.id = calculateHash(signed)]

----------------------------------------------------------------------------
(* The environment: what callers hand to the ledger *)

NoBlock ==
    [header |-> [version |-> 1, previousHash |-> ZeroHash, merkleRoot |-> EmptyDigest,
                 timestamp |-> 0, difficulty |-> 0, nonce |-> 0, height |-> -1],
     transactions |-> <<>>, hash |-> ZeroHash]

\* the times an operation can happen at: now, or later within the run
Times == {t \in now..(now + 1) : t <= StartTime + MaxTick}

Miners == {"A"}
ForeignMiner == "B"
SendAmounts == {10 * Unit}
SendFees == {1}

UnknownTxId == calculateHash(NoTx)

\* the outputs a hand-built transaction may name: every unspent one, one that
\* never existed, an index below zero, and the coinbase sentinel
References ==
    {<<utxoSet[i].txId, utxoSet[i].outputIndex>> : i \in 1..Len(utxoSet)}
    \cup {<<UnknownTxId, 0>>, <<chain[1].transactions[1].id, -1>>, <<ZeroTxId, -1>>}

\* a transaction built by hand by the holder of private key k (0: nobody, the
\* input stays unsigned): one input naming `ref`, declaring the amount of that
\* output, and one output paying it all to the builder
handBuilt(k, ref, t) ==
    LET declared == IF utxoHas(utxoSet, ref[1], ref[2])
                    THEN utxoGet(utxoSet, ref[1], ref[2]).amount
                    ELSE 10 * Unit
        input == [txId |-> ref[1], outputIndex |-> ref[2], signature |-> NoSignature,
                  publicKey |-> IF k = 0 THEN 0 ELSE getPublicKey(k), amount |-> declared]
        to == IF k = 0 THEN "A" ELSE publicKeyToAddress(getPublicKey(k))
        tx == NewTransaction(<<input>>, <<[address |-> to, amount |-> declared]>>, t)
    IN  IF k = 0 THEN tx ELSE signAll(tx, k)

acceptedCount ==
    Len(memPool)
    + SumSeq([b \in 1..Len(chain) |->
                 Cardinality({i \in 2..Len(chain[b].transactions) : TRUE})])

\* a block built outside the ledger on the current tip by miner m at time t,
\* carrying a coinbase and `transactions`, sound or with one defect
foreignBlock(m, transactions, defect, t) ==
    LET tip == getLatestBlock
        height == tip.header.height + 1
        coinbase == createCoinbase(m, getBlockReward(height), height, t)
        txs == IF defect = "twoCoinbase"
               THEN <<coinbase, createCoinbase(m, getBlockReward(height), height + 1, t)>>
               ELSE IF defect = "replayedCoinbase"
               THEN <<chain[IF Len(chain) > 1 THEN 2 ELSE 1].transactions[1]>>
               ELSE <<coinbase>> \o transactions
        d == IF defect = "lowDifficulty" THEN 1 ELSE difficulty
        b == NewBlock(txs,
                      IF defect = "badPrev" THEN ZeroHash ELSE tip.hash,
                      IF defect = "badHeight" THEN height + 1 ELSE height,
                      d, t)
        mined == mineBlockPoW(b, 0)
    IN  CASE defect = "unmined" -> b
          [] defect = "tamperedHash" -> [mined EXCEPT !.hash = <<HashDigits, mined.hash[2]>>]
          [] defect = "badMerkle" ->
                LET h == [mined.header EXCEPT !.merkleRoot = EmptyDigest, !.nonce = 0]
                IN  mineFrom([mined EXCEPT !.header = h, !.hash = blockHash(h)], d)
          [] OTHER -> mined

Defects == {"badPrev", "badHeight", "unmined", "tamperedHash", "badMerkle",
            "twoCoinbase", "lowDifficulty", "replayedCoinbase"}

----------------------------------------------------------------------------
(* The state machine *)

\* what the last call was (its arguments in `call`, the transaction or block it
\* handled) and what it returned; NoTx and NoBlock where there is none
Result(op, call, ret, tx, block, saved) ==
    [op |-> op, call |-> call, ret |-> ret, tx |-> tx, block |-> block, saved |-> saved]

Init ==
    LET genesisBlock == createGenesisBlock
        st == updateUTXOSet(EmptyIndex, genesisBlock)
    IN  /\ chain = <<genesisBlock>>
        /\ difficulty = initialDifficulty
        /\ memPool = <<>>
        /\ utxoSet = st.utxos
        /\ addressBalances = st.balances
        /\ blockTimes = <<targetBlockTime>>
        /\ storedBlocks = saveBlock(<<>>, genesisBlock)
        /\ metadata = setMetadata(initialDifficulty, 0)
        /\ now = StartTime
        /\ last = Result("init", <<>>, TRUE, NoTx, NoBlock, TRUE)

\* blockchain.addTransaction(tx) as it would be if an accepted transaction went
\* to the head of the pool
SubmitAtHead(tx, t) ==
    LET ok == addTransaction(tx)
    IN  /\ Len(memPool) < MaxPool
        /\ acceptedCount < MaxTxs
        /\ memPool' = IF ok THEN <<afterIsValid(tx)>> \o memPool ELSE memPool
        /\ now' = t
        /\ UNCHANGED <<chain, difficulty, utxoSet, addressBalances, blockTimes,
                       storedBlocks, metadata>>

\* blockchain.addTransaction(tx)
Submit(tx, t) ==
    LET ok == addTransaction(tx)
    IN  /\ Len(memPool) < MaxPool
        /\ acceptedCount < MaxTxs
        /\ memPool' = IF ok THEN Append(memPool, afterIsValid(tx)) ELSE memPool
        /\ now' = t
        /\ UNCHANGED <<chain, difficulty, utxoSet, addressBalances, blockTimes,
                       storedBlocks, metadata>>

\* the transactions callers build by hand: signed by either key holder over any
\* reference, or left unsigned
HandBuilt(t) ==
    {handBuilt(k, ref, t) : k \in PrivateKeys, ref \in References}
    \cup {handBuilt(0, <<utxoSet[1].txId, utxoSet[1].outputIndex>>, t)}

\* a caller builds a transaction by hand and submits it
AddTransaction ==
    \E t \in Times :
        \E tx \in HandBuilt(t) :
            /\ Submit(tx, t)
            /\ last' = Result("addTransaction", <<>>, addTransaction(tx), tx, NoBlock, TRUE)

\* wallet.sendTransaction(fromAddress, toAddress, amount, fee)
SendTransaction ==
    \E fromAddress \in WalletAccounts, toAddress \in Addresses,
       amount \in SendAmounts, fee \in SendFees, t \in Times :
        LET tx == createTransaction(fromAddress, toAddress, amount, fee, t)
        IN  /\ fromAddress # toAddress
            /\ IF tx = NoTx
               THEN /\ Len(memPool) < MaxPool
                    /\ acceptedCount < MaxTxs
                    /\ now' = t
                    /\ last' = Result("sendTransaction", <<fromAddress, toAddress, amount, fee>>,
                                    FALSE, NoTx, NoBlock, TRUE)
                    /\ UNCHANGED ledger
                    /\ UNCHANGED <<storedBlocks, metadata>>
               ELSE /\ Submit(tx, t)
                    /\ last' = Result("sendTransaction", <<fromAddress, toAddress, amount, fee>>,
                                    addTransaction(tx), tx, NoBlock, TRUE)

\* the answers the block store can give when asked to save: it is asked only
\* for a block that passed validation
SaveAnswers(block) ==
    IF blockIsValid(block, getLatestBlock) THEN BOOLEAN ELSE {TRUE}

\* blockchain.mineBlock(minerAddress); `saved` is the answer of the block store
MineBlock ==
    /\ Len(chain) < MaxChain
    /\ \E minerAddress \in Miners, t \in Times :
        LET d == adjustDifficulty
            newBlock == assembleBlock(minerAddress, d, t)
        IN  \E saved \in SaveAnswers(newBlock) :
              LET L == addBlock(newBlock, d, saved)
              IN  /\ Install(L)
                  /\ now' = t
                  /\ last' = Result("mineBlock", <<minerAddress>>, L.ret, NoTx, newBlock, saved)

\* the key that owns an address, 0 when nobody holds one
ownerKey(address) ==
    IF \E k \in PrivateKeys : publicKeyToAddress(getPublicKey(k)) = address
    THEN CHOOSE k \in PrivateKeys : publicKeyToAddress(getPublicKey(k)) = address
    ELSE 0

\* the transactions a miner elsewhere has seen: the pooled ones and those of
\* the chain that are no coinbase
SeenTransactions ==
    {memPool[i] : i \in 1..Len(memPool)}
    \cup {txAtPlace[2] : txAtPlace \in
             UNION {{<<b, chain[b].transactions[i]>> :
                        i \in 2..Len(chain[b].transactions)} : b \in 1..Len(chain)}}

\* the blocks built elsewhere: empty ones, sound or with a defect, sound ones
\* carrying one transaction in which the owner of an unspent output spends it,
\* and sound ones carrying one transaction seen before
ForeignBlocks(t) ==
    {foreignBlock(ForeignMiner, <<>>, defect, t) : defect \in Defects \cup {"none"}}
    \cup {foreignBlock(ForeignMiner, <<tx>>, "none", t) : tx \in SeenTransactions}
    \cup {foreignBlock(ForeignMiner,
                       <<handBuilt(ownerKey(utxoSet[i].address),
                                   <<utxoSet[i].txId, utxoSet[i].outputIndex>>, t)>>,
                       "none", t) :
              i \in {j \in 1..Len(utxoSet) : ownerKey(utxoSet[j].address) # 0}}

\* blockchain.addBlock(block) with a block built elsewhere
AddBlock ==
    /\ Len(chain) < MaxChain
    /\ \E t \in Times :
        \E block \in ForeignBlocks(t) :
          \E saved \in SaveAnswers(block) :
            LET L == addBlock(block, difficulty, saved)
            IN  /\ acceptedCount + Len(block.transactions) - 1 <= MaxTxs
                /\ Install(L)
                /\ now' = t
                /\ last' = Result("addBlock", <<>>, L.ret, NoTx, block, saved)

\* Blockchain.exportChain: the document, of which importChain reads the chain
\* and the difficulty
exportChain ==
    [parses |-> TRUE,
     chain |-> [i \in 1..Len(chain) |-> blockToJSON(chain[i])],
     difficulty |-> difficulty]

\* importChain as it would be if the chain were replaced before the candidate
\* is validated
importChainAdoptFirst(data, t) ==
    IF ~data.parses THEN Ledger(difficulty)
    ELSE LET newChain == [i \in 1..Len(data.chain) |-> blockFromJSON(data.chain[i], t)]
             st == replayBlocks(EmptyIndex, newChain)
         IN  IF ~chainIsValid(newChain)
             THEN [Ledger(difficulty) EXCEPT !.chain = newChain]
             ELSE [Ledger(data.difficulty) EXCEPT
                      !.ret = TRUE, !.chain = newChain,
                      !.utxoSet = st.utxos, !.addressBalances = st.balances]

\* Blockchain.importChain(data) at time t, as a function of the ledger it finds
importChain(data, t) ==
    IF ~data.parses THEN Ledger(difficulty)
    ELSE LET newChain == [i \in 1..Len(data.chain) |-> blockFromJSON(data.chain[i], t)]
         IN  IF ~chainIsValid(newChain) THEN Ledger(difficulty)
             ELSE LET validated == [i \in 1..Len(newChain) |->
                                       IF i = 1 THEN newChain[i]
                                       ELSE blockAfterIsValid(newChain[i])]
                      st == replayBlocks(EmptyIndex, validated)
                  IN  [Ledger(data.difficulty) EXCEPT
                          !.ret = TRUE, !.chain = validated,
                          !.utxoSet = st.utxos, !.addressBalances = st.balances]

\* the documents handed to importChain: the ledger's own export, the same with
\* the stored hash of its last block replaced, a chain of no block, the tip
\* alone, and a text that is no JSON
ImportDocuments ==
    LET own == exportChain
        n == Len(chain)
    IN  {own, [own EXCEPT !.chain = <<>>], [own EXCEPT !.parses = FALSE]}
        \cup (IF n >= 1
              THEN {[own EXCEPT !.chain[n].hash = <<HashDigits, own.chain[n].hash[2]>>]}
              ELSE {})
        \cup (IF n >= 2 THEN {[own EXCEPT !.chain = <<own.chain[n]>>]} ELSE {})

\* blockchain.importChain(data)
ImportChain ==
    \E t \in Times :
        \E data \in ImportDocuments :
            LET L == importChain(data, t)
            IN  /\ Install(L)
                /\ now' = t
                /\ last' = Result("importChain", <<data>>, L.ret, NoTx, NoBlock, TRUE)

\* mineBlock reads the tip: on a chain of no block it throws before it changes
\* anything; the heights of the model stop at MaxChain - 1
CanExtend == Len(chain) >= 1 /\ getLatestBlock.header.height < MaxChain - 1

\* the chain objects after Blockchain.isChainValid has run: Block.isValid
\* rewrites the fee of the transactions of every block it reaches
chainAfterIsChainValid(c) ==
    [i \in 1..Len(c) |->
        IF i >= 2 /\ \A j \in 2..(i - 1) : blockIsValid(c[j], c[j - 1])
        THEN blockAfterIsValid(c[i])
        ELSE c[i]]

ReadOperations ==
    {"getAddressBalance", "getUTXOsForAddress", "getBlockByHeight", "getBlockByHash",
     "getTransactionById", "isChainValid"}

\* what a read is asked for: an address, a height, a hash, a transaction id
ReadArguments(op) ==
    CASE op \in {"getAddressBalance", "getUTXOsForAddress"} -> {"A", GenesisAddress}
      [] op = "getBlockByHeight" -> {Len(chain) - 1, MaxChain}
      [] op = "getBlockByHash" -> {chain[Len(chain)].hash, ZeroHash}
      [] op = "getTransactionById" ->
            {chain[Len(chain)].transactions[1].id, UnknownTxId}
            \cup {memPool[i].id : i \in 1..Len(memPool)}
      [] OTHER -> {<<>>}

\* a read as it would be if getUTXOsForAddress kept in the index only the
\* entries of the address asked for
readLeavesFiltering(op, arg) ==
    [Ledger(difficulty) EXCEPT
        !.chain = IF op = "isChainValid" THEN chainAfterIsChainValid(chain) ELSE chain,
        !.utxoSet = IF op = "getUTXOsForAddress"
                    THEN SelectSeq(utxoSet, LAMBDA u : u.address = arg)
                    ELSE utxoSet]

\* the ledger a read leaves: the five lookups assign nothing, isChainValid
\* leaves the chain objects as Block.isValid leaves them
readLeaves(op, arg) ==
    [Ledger(difficulty) EXCEPT
        !.chain = IF op = "isChainValid" THEN chainAfterIsChainValid(chain) ELSE chain]

\* what a read returns; a block or transaction by its hash or id, <<>> for null
readReturns(op, arg) ==
    CASE op = "getAddressBalance" -> getAddressBalance(arg)
      [] op = "getUTXOsForAddress" -> getUTXOsForAddress(arg)
      [] op = "getBlockByHeight" ->
            LET found == SelectSeq(chain, LAMBDA b : b.header.height = arg)
            IN  IF found = <<>> THEN <<>> ELSE found[1].hash
      [] op = "getBlockByHash" ->
            LET found == SelectSeq(chain, LAMBDA b : b.hash = arg)
            IN  IF found = <<>> THEN <<>> ELSE found[1].hash
      [] op = "getTransactionById" ->
            IF isTransactionInBlockchain(arg) \/ \E i \in 1..Len(memPool) : memPool[i].id = arg
            THEN arg ELSE <<>>
      [] OTHER -> isChainValid

\* one of the read operations of the ledger
Read ==
    \E op \in ReadOperations :
        \E arg \in ReadArguments(op) :
            /\ Install(readLeaves(op, arg))
            /\ last' = Result(op, <<arg, readReturns(op, arg)>>, TRUE, NoTx, NoBlock, TRUE)
            /\ UNCHANGED now

(* Transaction on its own: objects built by callers, then validated, signed *)
(* and serialised                                                           *)

SeqsUpTo2(S) == {<<>>} \cup {<<a>> : a \in S} \cup {<<a, b>> : a \in S, b \in S}

DrawnAmount == 5

\* the inputs callers build at time t: naming an output or shaped as a coinbase
\* input, with or without a public key, unsigned or signed by either key holder
DrawnInputs(t) ==
    LET bare == {[txId |-> ref[1], outputIndex |-> ref[2], signature |-> NoSignature,
                  publicKey |-> pk, amount |-> DrawnAmount] :
                     ref \in {<<UnknownTxId, 0>>, <<ZeroTxId, -1>>},
                     pk \in {0, getPublicKey(1)}}
    IN  bare \cup {[input EXCEPT !.signature = sign(signatureData(input, t), k)] :
                      input \in bare, k \in PrivateKeys}

DrawnOutputs == {[address |-> "B", amount |-> a] : a \in {0, 3, 8}}

\* new Transaction(inputs, outputs) for up to two inputs and two outputs
DrawnTransactions(t) ==
    {NewTransaction(inputs, outputs, t) :
        inputs \in SeqsUpTo2(DrawnInputs(t)), outputs \in SeqsUpTo2(DrawnOutputs)}

\* a fresh ledger, and a transaction object in the hands of a caller
InitTransaction ==
    LET genesisBlock == createGenesisBlock
        st == updateUTXOSet(EmptyIndex, genesisBlock)
    IN  /\ chain = <<genesisBlock>>
        /\ difficulty = initialDifficulty
        /\ memPool = <<>>
        /\ utxoSet = st.utxos
        /\ addressBalances = st.balances
        /\ blockTimes = <<targetBlockTime>>
        /\ storedBlocks = saveBlock(<<>>, genesisBlock)
        /\ metadata = setMetadata(initialDifficulty, 0)
        /\ now = StartTime
        /\ \E tx \in DrawnTransactions(StartTime) :
              last = Result("new Transaction", <<>>, TRUE, tx, NoBlock, TRUE)

\* tx.isValid(): `call` keeps the object as it was handed in
IsValidCall ==
    /\ last.op # "isValid"
    /\ last' = Result("isValid", <<last.tx>>, isValid(last.tx), afterIsValid(last.tx),
                      NoBlock, TRUE)
    /\ UNCHANGED <<ledger, storedBlocks, metadata, now>>

(* Hash.adjustDifficulty and Block.getBlockReward on their own *)

\* the difficulties, expected times and observed times handed to
\* Hash.adjustDifficulty: around both thresholds, and an earlier timestamp
\* after a later one
RetargetDifficulties == 0..5
RetargetExpected == {4, 8, targetBlockTime}
RetargetActual(timeExpected) ==
    {-1, 0, 1, 2, 3,
     timeExpected \div 4 - 1, timeExpected \div 4, timeExpected \div 4 + 1,
     timeExpected, 4 * timeExpected - 1, 4 * timeExpected, 4 * timeExpected + 1}

\* Hash.adjustDifficulty(currentDifficulty, timeExpected, timeActual)
AdjustDifficultyCall ==
    \E currentDifficulty \in RetargetDifficulties, timeExpected \in RetargetExpected :
        \E timeActual \in RetargetActual(timeExpected) :
            /\ last' = Result("adjustDifficulty",
                              <<currentDifficulty, timeExpected, timeActual,
                                adjustDifficultyTo(currentDifficulty, timeExpected,
                                                   timeActual, 1)>>,
                              TRUE, NoTx, NoBlock, TRUE)
            /\ UNCHANGED <<ledger, storedBlocks, metadata, now>>

\* rewards are counted in 1/RewardScale of a coin: twenty halvings are exact
RewardScale == Pow2(20)

\* the heights handed to Block.getBlockReward: around each of the first
\* halvings, and at the tenth and the twentieth
RewardHeights ==
    {0, 1, halvingInterval - 1, halvingInterval, halvingInterval + 1,
     2 * halvingInterval - 1, 2 * halvingInterval, 3 * halvingInterval,
     4 * halvingInterval + 7, 10 * halvingInterval, 20 * halvingInterval}

\* Block.getBlockReward(height)
GetBlockRewardCall ==
    \E height \in RewardHeights :
        /\ last' = Result("getBlockReward",
                          <<height, getBlockRewardIn(height, RewardScale)>>,
                          TRUE, NoTx, NoBlock, TRUE)
        /\ UNCHANGED <<ledger, storedBlocks, metadata, now>>

(* Block.mineBlock on its own, one attempt at a time *)

\* the blocks handed to Block.mineBlock: one coinbase transaction, over the
\* heights, header difficulties and construction times of the model
MiningBlocks ==
    {NewBlock(<<createCoinbase("A", getBlockReward(height), height, t)>>,
              ZeroHash, height, d, t) :
        height \in 0..(MaxChain - 1), d \in 1..4, t \in StartTime..(StartTime + MaxTick)}

\* the argument of mineBlock: 0 for none, a count of digits the digest can
\* show, one more digit than the digest has, and a negative count
MiningDifficulties == {0, 1, 2, 3, 5, HashDigits + 1, -1}

\* a fresh ledger, and a block about to be mined with argument `difficulty`
InitMining ==
    LET genesisBlock == createGenesisBlock
        st == updateUTXOSet(EmptyIndex, genesisBlock)
    IN  /\ chain = <<genesisBlock>>
        /\ difficulty = initialDifficulty
        /\ memPool = <<>>
        /\ utxoSet = st.utxos
        /\ addressBalances = st.balances
        /\ blockTimes = <<targetBlockTime>>
        /\ storedBlocks = saveBlock(<<>>, genesisBlock)
        /\ metadata = setMetadata(initialDifficulty, 0)
        /\ now = StartTime
        /\ \E block \in MiningBlocks, d \in MiningDifficulties :
              last = Result("new Block", <<d>>, TRUE, NoTx, block, TRUE)

\* mineBlock up to its loop: the target is the argument or, without one, the
\* header's difficulty; '0'.repeat throws on a negative count; the nonce is
\* reset and the hash updated
MineStart ==
    /\ last.op = "new Block"
    /\ LET targetDifficulty == IF last.call[1] # 0 THEN last.call[1]
                               ELSE last.block.header.difficulty
       IN  last' = IF targetDifficulty < 0
                   THEN Result("RangeError", <<targetDifficulty>>, FALSE, NoTx,
                               last.block, TRUE)
                   ELSE Result("mining", <<targetDifficulty>>, TRUE, NoTx,
                               updateHash([last.block EXCEPT !.header.nonce = 0]), TRUE)
    /\ UNCHANGED <<ledger, storedBlocks, metadata, now>>

\* one turn of the loop: the hash does not start with the target, the nonce
\* goes up by one and the hash is updated
MineAttempt ==
    /\ last.op = "mining"
    /\ ~meetsDifficulty(last.block.hash, last.call[1])
    /\ last.block.header.nonce < MaxNonce
    /\ last' = [last EXCEPT !.block = updateHash([last.block EXCEPT !.header.nonce = @ + 1])]
    /\ UNCHANGED <<ledger, storedBlocks, metadata, now>>

\* the loop ends: the hash starts with the target
MineReturn ==
    /\ last.op = "mining"
    /\ meetsDifficulty(last.block.hash, last.call[1])
    /\ last' = [last EXCEPT !.op = "mined"]
    /\ UNCHANGED <<ledger, storedBlocks, metadata, now>>

(* SimpleBlockchain, the account ledger of index.ts.  Its chain is kept in   *)
(* `chain`, its pendingTransactions in `memPool`, the cached balances of its *)
(* wallets in `addressBalances`; amounts are whole coins.                    *)

SimpleDifficulty == 2
SimpleMiningReward == 100
SimpleWallets == {"A", "B"}
SimpleAmounts == {0, 100}

\* SimpleBlockchain.calculateHash: the digest of index, previousHash,
\* timestamp, transactions and nonce, preceded by its leading zero digits
simpleCalculateHash(block) ==
    << trailingZeros(1 + ((block.index + block.timestamp) % 15) + block.nonce),
       << block.index, block.previousHash, block.timestamp, block.transactions,
          block.nonce >> >>

\* SimpleBlockchain.createGenesisBlock at time t
simpleCreateGenesisBlock(t) ==
    LET genesis == [index |-> 0, timestamp |-> t, transactions |-> <<>>,
                    previousHash |-> <<0, <<"0">>>>, hash |-> <<0, <<>>>>, nonce |-> 0]
    IN  [genesis EXCEPT !.hash = simpleCalculateHash(genesis)]

\* what an address has sent and received in the transactions of one block
RECURSIVE netOfTransactions(_, _)
netOfTransactions(transactions, address) ==
    IF transactions = <<>> THEN 0
    ELSE (IF transactions[1].to = address THEN transactions[1].amount ELSE 0)
         - (IF transactions[1].from = address THEN transactions[1].amount ELSE 0)
         + netOfTransactions(Tail(transactions), address)

\* SimpleBlockchain.getBalance over a chain: the blocks of the chain only
RECURSIVE getBalanceOver(_, _)
getBalanceOver(blocks, address) ==
    IF blocks = <<>> THEN 0
    ELSE netOfTransactions(blocks[1].transactions, address)
         + getBalanceOver(Tail(blocks), address)

\* SimpleBlockchain.getBalance
getBalance(address) == getBalanceOver(chain, address)

\* crypto.randomBytes(16): an id no transaction has had
freshId ==
    <<"id", 1 + Len(memPool)
            + SumSeq([b \in 1..Len(chain) |-> Len(chain[b].transactions)])>>

InsufficientBalance == "Insufficient balance"
AmountNotPositive == "Amount must be positive"
Created == "created"

\* SimpleBlockchain.createTransaction: how the call ends
simpleCreateOutcome(from, to, amount) ==
    IF from # "system" /\ getBalance(from) < amount THEN InsufficientBalance
    ELSE IF amount <= 0 THEN AmountNotPositive
    ELSE Created

\* the signature of createTransaction: the digest of id and private key
simpleSignature(id, from) == <<id, from>>

\* SimpleBlockchain.createTransaction(from, to, amount) at time t
SimpleCreateTransaction ==
    \E from \in SimpleWallets \cup {"system"}, to \in SimpleWallets, amount \in SimpleAmounts :
        LET outcome == simpleCreateOutcome(from, to, amount)
            transaction == [id |-> freshId, from |-> from, to |-> to, amount |-> amount,
                            timestamp |-> now,
                            signature |-> IF from \in SimpleWallets
                                          THEN simpleSignature(freshId, from) ELSE <<>>]
        IN  /\ Len(memPool) < MaxPool
            /\ from # to
            /\ memPool' = IF outcome = Created THEN Append(memPool, transaction) ELSE memPool
            /\ last' = Result("createTransaction", <<from, to, amount, outcome>>,
                              outcome = Created, NoTx, NoBlock, TRUE)
            /\ UNCHANGED <<chain, difficulty, utxoSet, addressBalances, blockTimes,
                           storedBlocks, metadata, now>>

\* the proof-of-work loop of SimpleBlockchain.mineBlock: the first hash is
\* computed at nonce 1
RECURSIVE simpleMineFrom(_, _)
simpleMineFrom(block, d) ==
    IF block.hash[1] >= d \/ block.nonce >= MaxNonce THEN block
    ELSE LET next == [block EXCEPT !.nonce = @ + 1]
         IN  simpleMineFrom([next EXCEPT !.hash = simpleCalculateHash(next)], d)

\* SimpleBlockchain.mineBlock(miningRewardAddress)
SimpleMineBlock ==
    \E miningRewardAddress \in SimpleWallets :
        LET rewardTransaction == [id |-> freshId, from |-> "system",
                                  to |-> miningRewardAddress,
                                  amount |-> SimpleMiningReward, timestamp |-> now,
                                  signature |-> <<>>]
            block == [index |-> Len(chain), timestamp |-> now,
                      transactions |-> <<rewardTransaction>> \o memPool,
                      previousHash |-> chain[Len(chain)].hash,
                      hash |-> <<0, <<>>>>, nonce |-> 0]
            mined == simpleMineFrom(block, difficulty)
            newChain == Append(chain, mined)
        IN  /\ Len(chain) < MaxSimpleChain
            /\ chain' = newChain
            /\ memPool' = <<>>
            /\ addressBalances' = [a \in SimpleWallets |-> getBalanceOver(newChain, a)]
            /\ last' = Result("mineBlock", <<miningRewardAddress>>, TRUE, NoTx, NoBlock, TRUE)
            /\ UNCHANGED <<difficulty, utxoSet, blockTimes, storedBlocks, metadata, now>>

\* new SimpleBlockchain(), then createWallet() twice
InitSimple ==
    /\ chain = <<simpleCreateGenesisBlock(StartTime)>>
    /\ memPool = <<>>
    /\ difficulty = SimpleDifficulty
    /\ addressBalances = [a \in SimpleWallets |-> 0]
    /\ utxoSet = <<>>
    /\ blockTimes = <<>>
    /\ storedBlocks = <<>>
    /\ metadata = <<>>
    /\ now = StartTime
    /\ last = Result("init", <<>>, TRUE, NoTx, NoBlock, TRUE)

\* a document written by hand: one block, the genesis block with the height
\* before the first halving in its header (importChain checks nothing on a
\* chain of one block)
LoneBlockDocument ==
    [parses |-> TRUE,
     chain |-> <<blockToJSON([createGenesisBlock EXCEPT
                                 !.header.height = halvingInterval - 1])>>,
     difficulty |-> initialDifficulty]

\* blockchain.importChain(data) with the document written by hand
ImportLoneBlock ==
    \E t \in Times :
        LET L == importChain(LoneBlockDocument, t)
        IN  /\ Install(L)
            /\ now' = t
            /\ last' = Result("importChain", <<LoneBlockDocument>>, L.ret, NoTx, NoBlock, TRUE)

(* A full pool.  addTransaction asks neither who owns an output nor whether  *)
(* a pooled transaction names it already, so any number of signed            *)
(* transactions naming the genesis output can wait in the pool.              *)

\* the fee of the k-th transaction of a pool of n, by the way the fees run
FeePatterns == {"ascending", "descending", "constant", "peak"}
feeOf(pattern, k, n) ==
    CASE pattern = "ascending" -> k - 1
      [] pattern = "descending" -> n - k
      [] pattern = "constant" -> 1
      [] OTHER -> IF k = 2 THEN 2 ELSE 1

\* the k-th transaction of such a pool, built one millisecond after the one
\* before it: signed by A, paying A, and B as well every third time
pooledTransaction(pattern, k, n) ==
    LET genesisOutput == createGenesisBlock.transactions[1]
        fee == feeOf(pattern, k, n)
        input == [txId |-> genesisOutput.id, outputIndex |-> 0, signature |-> NoSignature,
                  publicKey |-> getPublicKey(1), amount |-> genesisOutput.outputs[1].amount]
        outputs == IF k % 3 = 0
                   THEN <<[address |-> "A", amount |-> input.amount - fee - 1],
                          [address |-> "B", amount |-> 1]>>
                   ELSE <<[address |-> "A", amount |-> input.amount - fee]>>
    IN  afterIsValid(signAll(NewTransaction(<<input>>, outputs, StartTime - 1 - (n - k)), 1))

\* the sizes of the pool, and the caps a selection is asked for
PoolSizes == 0..4
SelectionCaps == 0..3

\* a fresh ledger whose pool has filled up
InitSelection ==
    LET genesisBlock == createGenesisBlock
        st == updateUTXOSet(EmptyIndex, genesisBlock)
    IN  /\ chain = <<genesisBlock>>
        /\ difficulty = initialDifficulty
        /\ \E pattern \in FeePatterns, n \in PoolSizes :
              memPool = [k \in 1..n |-> pooledTransaction(pattern, k, n)]
        /\ utxoSet = st.utxos
        /\ addressBalances = st.balances
        /\ blockTimes = <<targetBlockTime>>
        /\ storedBlocks = saveBlock(<<>>, genesisBlock)
        /\ metadata = setMetadata(initialDifficulty, 0)
        /\ now = StartTime
        /\ last = Result("init", <<>>, TRUE, NoTx, NoBlock, TRUE)

\* callers submit transactions, by hand or through the wallet, and mine
Next == AddTransaction \/ SendTransaction \/ MineBlock

Spec == Init /\ [][Next]_vars

\* wallet users, the local miner and blocks that arrive from elsewhere
NextBlocks == SendTransaction \/ MineBlock \/ AddBlock

SpecBlocks == Init /\ [][NextBlocks]_vars

----------------------------------------------------------------------------
\* wallet users, the local miner and imported chains
NextImport ==
    \/ SendTransaction
    \/ (CanExtend /\ MineBlock)
    \/ ImportChain

SpecImport == Init /\ [][NextImport]_vars

----------------------------------------------------------------------------
\* wallet users, the local miner and readers
NextReads == SendTransaction \/ MineBlock \/ Read

SpecReads == Init /\ [][NextReads]_vars

----------------------------------------------------------------------------
\* tx.signTransaction(privateKey, inputIndex)
SignTransaction ==
    \E privateKey \in PrivateKeys, inputIndex \in -1..2 :
        /\ last.op = "new Transaction"
        /\ last' = Result("signTransaction",
                          <<last.tx, privateKey, inputIndex,
                            signOutcome(last.tx, privateKey, inputIndex)>>,
                          signOutcome(last.tx, privateKey, inputIndex) = Signed,
                          signTransaction(last.tx, privateKey, inputIndex), NoBlock, TRUE)
        /\ UNCHANGED <<ledger, storedBlocks, metadata, now>>

\* Transaction.fromJSON(tx.toJSON()) at time t
RoundTrip ==
    \E t \in Times :
        /\ last.op # "fromJSON"
        /\ last' = Result("fromJSON", <<last.tx>>, TRUE, fromJSON(toJSON(last.tx), t),
                          NoBlock, TRUE)
        /\ now' = t
        /\ UNCHANGED <<ledger, storedBlocks, metadata>>

\* callers of Transaction
NextTransaction == IsValidCall \/ SignTransaction \/ RoundTrip

SpecTransaction == InitTransaction /\ [][NextTransaction]_vars

----------------------------------------------------------------------------

\* callers of the two formulas
NextFormulas == AdjustDifficultyCall \/ GetBlockRewardCall

SpecFormulas == Init /\ [][NextFormulas]_vars

----------------------------------------------------------------------------

\* the steps of Block.mineBlock, which runs on until it returns
NextMining == MineStart \/ MineAttempt \/ MineReturn

SpecMining == InitMining /\ [][NextMining]_vars /\ WF_vars(NextMining)

----------------------------------------------------------------------------

\* callers of SimpleBlockchain
NextSimple == SimpleCreateTransaction \/ SimpleMineBlock

SpecSimple == InitSimple /\ [][NextSimple]_vars

----------------------------------------------------------------------------

\* the chain is still the ledger's own: the runs of the model import once
OwnChain == chain[1].header.height = 0

\* wallet users, the local miner and a chain imported at the eve of a halving
NextHalving ==
    \/ SendTransaction
    \/ MineBlock
    \/ (OwnChain /\ ImportLoneBlock)

SpecHalving == Init /\ [][NextHalving]_vars

----------------------------------------------------------------------------

\* selectTransactionsForMining(cap): the filter runs isValid on every pooled
\* transaction, which recomputes its fee
SelectTransactions ==
    \E cap \in SelectionCaps :
        /\ last.op # "selectTransactionsForMining"
        /\ memPool' = [i \in 1..Len(memPool) |-> afterIsValid(memPool[i])]
        /\ last' = Result("selectTransactionsForMining",
                          <<cap, selectTransactionsUpTo(cap)>>, TRUE, NoTx, NoBlock, TRUE)
        /\ UNCHANGED <<chain, difficulty, utxoSet, addressBalances, blockTimes,
                       storedBlocks, metadata, now>>

\* the local miner and the selection on its own, over a pool that has filled up
NextSelection == MineBlock \/ SelectTransactions

SpecSelection == InitSelection /\ [][NextSelection]_vars

----------------------------------------------------------------------------

(* Callers who write the amount of an input themselves *)

\* the amounts over the real one that a caller may declare on an input
Overstatements == {0, 10 * Unit}

\* a transaction built by the holder of private key k over the unspent output
\* `utxo`: one input declaring the output's amount and `extra`, one output
\* paying the declared amount to the builder
handDeclared(k, utxo, extra, t) ==
    LET input == [txId |-> utxo.txId, outputIndex |-> utxo.outputIndex,
                  signature |-> NoSignature, publicKey |-> getPublicKey(k),
                  amount |-> utxo.amount + extra]
        to == publicKeyToAddress(getPublicKey(k))
    IN  signAll(NewTransaction(<<input>>, <<[address |-> to, amount |-> input.amount]>>, t), k)

\* a caller builds such a transaction and submits it
AddDeclared ==
    \E t \in Times, k \in PrivateKeys, i \in 1..Len(utxoSet), extra \in Overstatements :
        LET tx == handDeclared(k, utxoSet[i], extra, t)
        IN  /\ Submit(tx, t)
            /\ last' = Result("addTransaction", <<>>, addTransaction(tx), tx, NoBlock, TRUE)

NextDeclared == AddDeclared \/ MineBlock

SpecDeclared == Init /\ [][NextDeclared]_vars

----------------------------------------------------------------------------

(* A miner working alone, long enough to pass two retarget points *)

\* the time between a block and the next: a millisecond, the target, or five
\* times the target
BlockGaps == {1, targetBlockTime, 5 * targetBlockTime}

\* the times the next block is mined at: the miner keeps the pace of the block
\* before, and may change it after the first block and at a retarget point
PacedTimes ==
    LET tip == getLatestBlock.header.timestamp
        paces == IF Len(chain) = 2 \/ Len(chain) % difficultyAdjustmentInterval = 0
                 THEN BlockGaps
                 ELSE {blockTimes[Len(blockTimes)]}
    IN  IF Len(chain) = 1 THEN {now}
        ELSE {t \in {tip + gap : gap \in paces} : t >= now}

\* blockchain.mineBlock(minerAddress) by that miner; `saved` is the answer of
\* the block store
MineBlockPaced ==
    /\ Len(chain) < MaxLongChain
    /\ adjustDifficulty <= MaxDifficulty
    /\ \E minerAddress \in Miners, t \in PacedTimes :
        LET d == adjustDifficulty
            newBlock == assembleBlock(minerAddress, d, t)
        IN  \E saved \in SaveAnswers(newBlock) :
              LET L == addBlock(newBlock, d, saved)
              IN  /\ Install(L)
                  /\ now' = t
                  /\ last' = Result("mineBlock", <<minerAddress>>, L.ret, NoTx, newBlock, saved)

NextRetarget == MineBlockPaced

SpecRetarget == Init /\ [][NextRetarget]_vars

----------------------------------------------------------------------------

(* Sanity of the model itself *)

TypeOK ==
    /\ Len(chain) \in 1..MaxChain
    /\ Len(memPool) <= MaxPool
    /\ difficulty \in 1..8
    /\ now \in StartTime..(StartTime + MaxTick)
    /\ last.ret \in BOOLEAN

\* the proof-of-work search of the model never runs out of nonces
SearchNeverCut ==
    \A i \in 1..Len(chain) : chain[i].header.nonce < MaxNonce

----------------------------------------------------------------------------
(* What the claims speak of *)

\* the places of the chain's transactions: <<block, index>>
ChainPlaces ==
    UNION {{<<b, i>> : i \in 1..Len(chain[b].transactions)} : b \in 1..Len(chain)}

txAt(p) == chain[p[1]].transactions[p[2]]

\* the outputs a transaction spends
spentBy(tx) ==
    {<<tx.inputs[i].txId, tx.inputs[i].outputIndex>> :
        i \in {j \in 1..Len(tx.inputs) : isSpendingInput(tx.inputs[j])}}

\* C1: no output is spent twice on the chain: two different transactions of
\* the chain, in one block or in two, never name the same output as an input
C1_NoOutputSpentTwice ==
    \A p, q \in ChainPlaces :
        p # q => spentBy(txAt(p)) \cap spentBy(txAt(q)) = {}

\* C2: addTransaction returns false for every transaction that is not a
\* coinbase transaction and has an input naming an output that is not in the
\* unspent-output index, whatever txId and outputIndex that input carries
C2_MissingOutputRefused ==
    (/\ last.op = "addTransaction"
     /\ ~isCoinbase(last.tx)
     /\ \E i \in 1..Len(last.tx.inputs) :
            ~utxoHas(utxoSet, last.tx.inputs[i].txId, last.tx.inputs[i].outputIndex))
    => last.ret = FALSE

\* C3: only the owner spends: in a transaction addTransaction accepted, every
\* input that names an unspent output carries a public key whose address is the
\* owner of that output, and a signature that verifies under that key
C3_OnlyOwnerSpends ==
    (/\ last.op \in {"addTransaction", "sendTransaction"}
     /\ last.ret
     /\ ~isCoinbase(last.tx))
    => \A i \in 1..Len(last.tx.inputs) :
          LET input == last.tx.inputs[i]
          IN  utxoHas(utxoSet, input.txId, input.outputIndex)
              => /\ publicKeyToAddress(input.publicKey)
                      = utxoGet(utxoSet, input.txId, input.outputIndex).address
                 /\ verify(signatureData(input, last.tx.timestamp),
                           input.signature, input.publicKey)

\* C4: addBlock returns false and changes nothing (chain, unspent-output index,
\* balances, pool, inter-block times, difficulty, block store) whenever the
\* block fails isValid against the tip or its height is not the tip's plus one
C4_RejectedBlockChangesNothing ==
    [][ (/\ last'.op = "addBlock"
         /\ \/ ~blockIsValid(last'.block, getLatestBlock)
            \/ last'.block.header.height # getLatestBlock.header.height + 1)
        => /\ last'.ret = FALSE
           /\ UNCHANGED <<chain, utxoSet, addressBalances, memPool, blockTimes,
                          difficulty, storedBlocks, metadata>> ]_vars

\* a block was refused as invalid while the chain had grown and the pool held
\* a transaction
C4_Witness ==
    /\ last.op = "addBlock"
    /\ last.ret = FALSE
    /\ ~blockIsValid(last.block, getLatestBlock)
    /\ Len(chain) >= 2
    /\ Len(memPool) >= 1

\* C5: while the block store answers every save, every mineBlock call returns a
\* block and extends the chain by exactly one block, whatever transactions
\* addTransaction has let into the pool
C5_MiningNeverFails ==
    [][ (last'.op = "mineBlock" /\ last'.saved)
        => (last'.ret /\ Len(chain') = Len(chain) + 1) ]_vars

\* C6: isChainValid() is true on the genesis-only ledger and in every state
\* reached by addTransaction calls and mineBlock calls
C6_ChainStaysValid == isChainValid

\* the chain was just extended by mining to three blocks or more, one of them
\* carrying a pooled transaction
C6_Witness ==
    /\ last.op = "mineBlock"
    /\ last.ret
    /\ Len(chain) >= 3
    /\ \E b \in 1..Len(chain) : Len(chain[b].transactions) >= 2
    /\ isChainValid

\* the values a stored hash can be replaced by: the same digest with other
\* leading digits, the hash of another block, sixty-four zeros
TamperedHashes(i) ==
    ({<<z, chain[i].hash[2]>> : z \in {0, chain[i].hash[1] + 1, HashDigits}}
     \cup {chain[j].hash : j \in 1..Len(chain)}
     \cup {ZeroHash})
    \ {chain[i].hash}

\* the chain with the stored hash of block i replaced by h
tampered(i, h) == [chain EXCEPT ![i].hash = h]

\* C7 (as stated): on every chain reached by mining, the genesis-only chain
\* included, replacing the stored hash of any block by a different value makes
\* isChainValid() false
C7_TamperEvidentOnEveryChain ==
    \A i \in 1..Len(chain) :
        \A h \in TamperedHashes(i) : ~chainIsValid(tampered(i, h))

\* C7 (amended): on every chain of two blocks or more reached by mining,
\* replacing the stored hash of any block, the genesis block included, by a
\* different value makes isChainValid() false
C7_TamperEvidentFromTwoBlocks ==
    Len(chain) >= 2
    => \A i \in 1..Len(chain) :
          \A h \in TamperedHashes(i) : ~chainIsValid(tampered(i, h))

\* a valid chain of three blocks, each of whose stored hashes can be replaced
C7_Witness ==
    /\ Len(chain) >= 3
    /\ isChainValid
    /\ \A i \in 1..Len(chain) : TamperedHashes(i) # {}
    /\ \E i \in 1..Len(chain) : \E h \in TamperedHashes(i) : h[1] > chain[i].hash[1]

\* the end-to-end settlement run, step by step.  On a fresh ledger A mines:
\* A's balance is the subsidy of block 1
FirstMineStep ==
    (/\ Len(chain) = 1 /\ memPool = <<>>
     /\ last'.op = "mineBlock" /\ last'.call = <<"A">> /\ last'.saved)
    => /\ last'.ret
       /\ Len(chain') = 2
       /\ balanceGet(addressBalances', "A") = getBlockReward(1)

\* the ledger right after that first block
AfterFirstMine ==
    /\ last.op = "mineBlock" /\ last.ret
    /\ Len(chain) = 2
    /\ Len(chain[2].transactions) = 1

\* then A sends amount to B with a fee, amount + fee within the subsidy: the
\* pool holds one transaction
SendStep ==
    (/\ AfterFirstMine
     /\ last'.op = "sendTransaction"
     /\ last'.call[1] = "A" /\ last'.call[2] = "B"
     /\ last'.call[3] + last'.call[4] <= getBlockReward(1))
    => /\ last'.ret
       /\ Len(memPool') = 1

\* the ledger right after that send
AfterSend ==
    /\ last.op = "sendTransaction" /\ last.ret
    /\ last.call[1] = "A" /\ last.call[2] = "B"
    /\ Len(chain) = 2
    /\ Len(chain[2].transactions) = 1
    /\ Len(memPool) = 1

\* then A mines again: the pool is empty, B holds the amount and A holds
\* `balanceOfA`
SecondMineStep(balanceOfA) ==
    (/\ AfterSend
     /\ last'.op = "mineBlock" /\ last'.call = <<"A">> /\ last'.saved)
    => /\ last'.ret
       /\ Len(memPool') = 0
       /\ balanceGet(addressBalances', "B") = last.call[3]
       /\ balanceGet(addressBalances', "A") = balanceOfA

\* C8 (as stated): after mineBlock(A), sendTransaction(A, B, amount, fee) and a
\* second mineBlock(A) on a fresh ledger, A's balance is the subsidy of block 1,
\* the pool holds 1 transaction and then 0, B holds amount, and A holds
\* subsidy - amount - fee + subsidy of the second block
C8_SettlementFeeLost ==
    [][ /\ FirstMineStep
        /\ SendStep
        /\ SecondMineStep(getBlockReward(1) - last.call[3] - last.call[4]
                          + getBlockReward(2)) ]_vars

\* C8 (amended): the same run ends with A holding subsidy - amount + subsidy of
\* the second block: the coinbase of the second block pays A the fee back
C8_SettlementFeeBackToMiner ==
    [][ /\ FirstMineStep
        /\ SendStep
        /\ SecondMineStep(getBlockReward(1) - last.call[3] + getBlockReward(2)) ]_vars

\* the run has happened: block 1 with A's coinbase alone, block 2 with A's
\* coinbase and the payment of 10 to B, the pool empty again
C8_Witness ==
    /\ last.op = "mineBlock" /\ last.ret
    /\ Len(chain) = 3
    /\ Len(chain[2].transactions) = 1
    /\ Len(chain[3].transactions) = 2
    /\ chain[3].transactions[2].outputs[1] = [address |-> "B", amount |-> 10 * Unit]
    /\ chain[3].transactions[2].fee = 1
    /\ memPool = <<>>
    /\ getAddressBalance("B") = 10 * Unit

\* C9: a block produced by mineBlock never includes a pooled transaction that
\* names an output which is no longer in the unspent-output index at the call
\* because an admitted block has spent it
C9_SpentInputNeverMined ==
    [][ (last'.op = "mineBlock" /\ last'.ret)
        => \A i \in 2..Len(last'.block.transactions) :
              \A ref \in spentBy(last'.block.transactions[i]) :
                  utxoHas(utxoSet, ref[1], ref[2]) ]_vars

\* the unspent outputs that a pooled transaction and tx both name
sharedWithPool(tx) ==
    {ref \in spentBy(tx) :
        /\ utxoHas(utxoSet, ref[1], ref[2])
        /\ \E i \in 1..Len(memPool) : ref \in spentBy(memPool[i])}

\* C10: pool admission reserves nothing: a valid transaction with an id the
\* pool does not hold, all of whose inputs name unspent outputs, one of them an
\* output a pooled transaction names too, is accepted and appended to the
\* pool; and the pool loses no transaction while no block is added
C10_NoReservationAtAdmission ==
    [][ /\ (/\ last'.op \in {"addTransaction", "sendTransaction"}
            /\ last'.tx # NoTx
            /\ isValid(last'.tx)
            /\ \A i \in 1..Len(memPool) : memPool[i].id # last'.tx.id
            /\ \A ref \in spentBy(last'.tx) : utxoHas(utxoSet, ref[1], ref[2])
            /\ sharedWithPool(last'.tx) # {})
           => /\ last'.ret
              /\ memPool' = Append(memPool, afterIsValid(last'.tx))
        /\ chain' = chain
           => /\ Len(memPool') >= Len(memPool)
              /\ SubSeq(memPool', 1, Len(memPool)) = memPool ]_vars

\* two different transactions naming the same unspent output sit in the pool,
\* the second just accepted
C10_Witness ==
    /\ last.op \in {"addTransaction", "sendTransaction"}
    /\ last.ret
    /\ Len(memPool) = 2
    /\ memPool[1].id # memPool[2].id
    /\ memPool[2].id = last.tx.id
    /\ \E ref \in spentBy(memPool[1]) \cap spentBy(memPool[2]) :
          utxoHas(utxoSet, ref[1], ref[2])

\* the sender's unspent outputs that no pooled transaction names, in total
unreferencedTotal(address) ==
    LET free == SelectSeq(getUTXOsForAddress(address), LAMBDA u :
                    ~\E i \in 1..Len(memPool) :
                        <<u.txId, u.outputIndex>> \in spentBy(memPool[i]))
    IN  SumSeq([i \in 1..Len(free) |-> free[i].amount])

\* C11: once sendTransaction from an address has returned true, a further
\* sendTransaction from that address before any block is mined returns false
\* whenever the sender's unspent outputs that no pooled transaction names total
\* less than amount + fee
C11_SecondSendRefused ==
    [][ (/\ last.op = "sendTransaction" /\ last.ret
         /\ last'.op = "sendTransaction"
         /\ last'.call[1] = last.call[1]
         /\ unreferencedTotal(last.call[1]) < last'.call[3] + last'.call[4])
        => ~last'.ret ]_vars

\* no two pooled transactions share an id, and no pooled id is in the chain
PoolIdentity ==
    /\ \A i, j \in 1..Len(memPool) : i # j => memPool[i].id # memPool[j].id
    /\ \A i \in 1..Len(memPool) : ~isTransactionInBlockchain(memPool[i].id)

\* C12: in every state reached by addTransaction, mineBlock and addBlock, no
\* two pooled transactions share an id and no pooled id is the id of a
\* transaction of the chain; a transaction whose id is pooled or in the chain
\* is refused
C12_PoolIdentity ==
    /\ PoolIdentity
    /\ [][ /\ PoolIdentity'
           /\ (/\ last'.op \in {"addTransaction", "sendTransaction"}
               /\ last'.tx # NoTx
               /\ \/ \E i \in 1..Len(memPool) : memPool[i].id = last'.tx.id
                  \/ isTransactionInBlockchain(last'.tx.id))
              => (~last'.ret /\ memPool' = memPool) ]_vars

\* a transaction with the id of a pooled one was just refused
C12_WitnessDuplicateRefused ==
    /\ last.op = "sendTransaction"
    /\ last.tx # NoTx
    /\ ~last.ret
    /\ \E i \in 1..Len(memPool) : memPool[i].id = last.tx.id
    /\ Len(chain) >= 2

\* C13: when saveBlock reports failure during addBlock of a block that is valid
\* on the tip, addBlock returns false and the chain, the unspent-output index,
\* the balances, the pool and the inter-block times are as before the call
C13_FailedSaveRollsBack ==
    [][ (/\ last'.op \in {"addBlock", "mineBlock"}
         /\ blockIsValid(last'.block, getLatestBlock)
         /\ ~last'.saved)
        => /\ ~last'.ret
           /\ UNCHANGED <<chain, utxoSet, addressBalances, memPool, blockTimes>> ]_vars

\* a block that is valid on the tip and carries a pooled transaction was
\* refused because the save failed
C13_Witness ==
    /\ last.op = "addBlock"
    /\ ~last.saved
    /\ ~last.ret
    /\ blockIsValid(last.block, getLatestBlock)
    /\ Len(last.block.transactions) = 2
    /\ \E i \in 1..Len(memPool) : memPool[i].id = last.block.transactions[2].id

\* C14: a ledger initialised from the persisted blocks, replayed through
\* rebuildMemoryStructures, has the same unspent-output index and the same
\* balances as the live ledger that admitted the blocks one by one
C14_ReplayEqualsLive ==
    LET replayed == rebuildMemoryStructures(loadAllBlocks(now))
    IN  /\ replayed.utxos = utxoSet
        /\ \A a \in (DOMAIN replayed.balances) \cup (DOMAIN addressBalances) \cup Addresses :
              balanceGet(replayed.balances, a) = getAddressBalance(a)

\* three blocks are persisted, one of them with a payment that spent an output
C14_Witness ==
    /\ Cardinality(DOMAIN storedBlocks) >= 3
    /\ Len(chain) >= 3
    /\ \E b \in 1..Len(chain) :
          /\ Len(chain[b].transactions) >= 2
          /\ \E ref \in spentBy(chain[b].transactions[2]) :
                ~utxoHas(utxoSet, ref[1], ref[2])
    /\ Len(utxoSet) >= 3

\* C15: in every state reached by addTransaction, mineBlock, addBlock and
\* importChain the chain is non-empty, its first block has height 0 and the
\* all-zero previous hash, and every later block has its parent's height + 1
\* and its parent's stored hash as previous hash
C15_ChainShape ==
    /\ Len(chain) >= 1
    /\ chain[1].header.height = 0
    /\ chain[1].header.previousHash = ZeroHash
    /\ \A i \in 2..Len(chain) :
          /\ chain[i].header.height = chain[i - 1].header.height + 1
          /\ chain[i].header.previousHash = chain[i - 1].hash

\* C16: spent outputs stay spent: an output named as an input by a transaction
\* of an admitted block is absent from the unspent-output index in every later
\* state, after any addTransaction, mineBlock and addBlock calls
C16_SpentStaysSpent ==
    \A p \in ChainPlaces :
        \A ref \in spentBy(txAt(p)) : ~utxoHas(utxoSet, ref[1], ref[2])

\* the amounts of getUTXOsForAddress(address), summed
utxoTotal(address) ==
    LET owned == getUTXOsForAddress(address)
    IN  SumSeq([i \in 1..Len(owned) |-> owned[i].amount])

\* C17: in every state reached by addTransaction, mineBlock and addBlock, the
\* balance of every address is the sum of the amounts of its unspent outputs
C17_BalanceIsSumOfOutputs ==
    \A a \in Addresses \cup (DOMAIN addressBalances) :
        getAddressBalance(a) = utxoTotal(a)

\* C18: addTransaction never changes the chain, the unspent-output index, the
\* balances or the difficulty; when it returns false the pool is unchanged,
\* and when it returns true the new pool is the old pool with that transaction
\* appended last
C18_AddTransactionEffect ==
    [][ (last'.op \in {"addTransaction", "sendTransaction"} /\ last'.tx # NoTx)
        => /\ UNCHANGED <<chain, utxoSet, addressBalances, difficulty>>
           /\ IF last'.ret
              THEN /\ Len(memPool') = Len(memPool) + 1
                   /\ SubSeq(memPool', 1, Len(memPool)) = memPool
                   /\ memPool'[Len(memPool')] = afterIsValid(last'.tx)
              ELSE memPool' = memPool ]_vars

\* a hand-built transaction was just accepted behind another one, on a chain
\* that had grown
C18_Witness ==
    /\ last.op = "addTransaction"
    /\ last.ret
    /\ Len(chain) >= 2
    /\ Len(memPool) = 2
    /\ memPool[2].id = last.tx.id
    /\ memPool[1].id # last.tx.id

\* the chain importChain builds from the document of the last call
candidateOf(call, t) ==
    [i \in 1..Len(call[1].chain) |-> blockFromJSON(call[1].chain[i], t)]

\* C19: importChain returns false and leaves the chain, the difficulty, the
\* unspent-output index and the balances unchanged whenever the document does
\* not parse or isChainValid() fails on the candidate chain
C19_InvalidImportRefused ==
    [][ (/\ last'.op = "importChain"
         /\ \/ ~last'.call[1].parses
            \/ ~chainIsValid(candidateOf(last'.call, now')))
        => /\ ~last'.ret
           /\ UNCHANGED <<chain, difficulty, utxoSet, addressBalances>> ]_vars

\* a document that parses, with a chain of two blocks or more that fails
\* isChainValid, was just refused
C19_Witness ==
    /\ last.op = "importChain"
    /\ ~last.ret
    /\ last.call[1].parses
    /\ Len(last.call[1].chain) >= 2
    /\ ~chainIsValid(candidateOf(last.call, now))
    /\ Len(chain) >= 2

\* C20: the reads getAddressBalance, getUTXOsForAddress, getBlockByHeight,
\* getBlockByHash, getTransactionById and isChainValid leave the chain, the
\* unspent-output index, the balances, the pool and the difficulty unchanged
C20_ReadsArePure ==
    [][ last'.op \in ReadOperations
        => UNCHANGED <<chain, utxoSet, addressBalances, memPool, difficulty>> ]_vars

\* isChainValid has just run over a chain that holds a payment with a fee,
\* while another payment waits in the pool
C20_Witness ==
    /\ last.op = "isChainValid"
    /\ last.call[2] = TRUE
    /\ \E b \in 2..Len(chain) :
          Len(chain[b].transactions) >= 2 /\ chain[b].transactions[2].fee > 0
    /\ Len(memPool) >= 1

\* the block is as Block.mineBlock() leaves it when run against the block's own
\* stored difficulty
minedOnOwnDifficulty(block) == block = mineBlockPoW(block, 0)

\* C21 (as stated): every block is valid on its parent right after mine() has
\* succeeded against the block's own stored difficulty
C21_MinedBlockIsValid ==
    [][ (/\ last'.op \in {"mineBlock", "addBlock"}
         /\ minedOnOwnDifficulty(last'.block))
        => blockIsValid(last'.block, getLatestBlock) ]_vars

\* C21 (amended): a block that names its parent's hash and its parent's height
\* plus one, whose transactions are all valid, with no id twice and at most one
\* coinbase transaction, in first place, is valid on its parent right after
\* mine() has succeeded against the block's own stored difficulty
C21_WellFormedMinedBlockIsValid ==
    [][ (/\ last'.op \in {"mineBlock", "addBlock"}
         /\ minedOnOwnDifficulty(last'.block)
         /\ last'.block.header.previousHash = getLatestBlock.hash
         /\ last'.block.header.height = getLatestBlock.header.height + 1
         /\ \A i \in 1..Len(last'.block.transactions) : isValid(last'.block.transactions[i])
         /\ ~HasDuplicates(txIds(last'.block.transactions))
         /\ coinbaseIndexes(last'.block) \subseteq {1})
        => blockIsValid(last'.block, getLatestBlock) ]_vars

\* a block carrying a payment, mined elsewhere with a search of several
\* nonces, was just admitted
C21_Witness ==
    /\ last.op = "addBlock"
    /\ last.ret
    /\ minedOnOwnDifficulty(last.block)
    /\ last.block.header.nonce > 0
    /\ Len(last.block.transactions) = 2
    /\ blockIsValid(last.block, chain[Len(chain) - 1])

\* outputs total more than inputs
overspends(tx) == SumAmounts(tx.outputs) > SumAmounts(tx.inputs)

\* the conditions of validity: an input or an output, every output amount
\* above zero and, unless the transaction is a coinbase transaction, every
\* input signed verifiably under its recorded public key and a fee >= 0
validityConditions(tx) ==
    /\ Len(tx.inputs) >= 1 \/ Len(tx.outputs) >= 1
    /\ \A i \in 1..Len(tx.outputs) : tx.outputs[i].amount > 0
    /\ isCoinbase(tx)
       \/ /\ \A i \in 1..Len(tx.inputs) :
                verify(signatureData(tx.inputs[i], tx.timestamp),
                       tx.inputs[i].signature, tx.inputs[i].publicKey)
          /\ SumAmounts(tx.inputs) - SumAmounts(tx.outputs) >= 0

\* C22 (as stated): isValid() returns true exactly under the conditions of
\* validity, and every transaction whose outputs total more than its inputs is
\* rejected
C22_OverspendAlwaysRejected ==
    last.op = "isValid"
    => /\ last.ret = validityConditions(last.call[1])
       /\ overspends(last.call[1]) => ~last.ret

\* C22 (amended): isValid() returns true exactly under the conditions of
\* validity, and every transaction that is no coinbase transaction and whose
\* outputs total more than its inputs is rejected
C22_OverspendRejectedUnlessCoinbase ==
    last.op = "isValid"
    => /\ last.ret = validityConditions(last.call[1])
       /\ (overspends(last.call[1]) /\ ~isCoinbase(last.call[1])) => ~last.ret

\* isValid() has just refused a transaction, correctly signed and with
\* positive outputs, only because it overspends
C22_Witness ==
    /\ last.op = "isValid"
    /\ ~last.ret
    /\ ~isCoinbase(last.call[1])
    /\ verifySignatures(last.call[1])
    /\ AllOutputsPositive(last.call[1])
    /\ Len(last.call[1].outputs) >= 1
    /\ overspends(last.call[1])

\* C27: signTransaction fails with the index error when inputIndex is not the
\* index of an existing input, and with the key-mismatch error when the public
\* key of privateKey is not the input's recorded one; in both cases no
\* signature of the transaction is modified
C27_SignFailures ==
    last.op = "signTransaction"
    => LET tx == last.call[1]
           privateKey == last.call[2]
           inputIndex == last.call[3]
           outcome == last.call[4]
       IN  /\ inputIndex \notin 0..(Len(tx.inputs) - 1)
              => (outcome = IndexOutOfBounds /\ last.tx = tx)
           /\ (/\ inputIndex \in 0..(Len(tx.inputs) - 1)
               /\ getPublicKey(privateKey) # tx.inputs[inputIndex + 1].publicKey)
              => (outcome = KeyMismatch /\ last.tx = tx)

\* C28: fromJSON(toJSON(tx)) has the id, timestamp, fee, version, inputs
\* (signatures included) and outputs of tx, and the same isValid() result
C28_RoundTrip ==
    last.op = "fromJSON"
    => LET tx == last.call[1]
       IN  /\ last.tx.id = tx.id
           /\ last.tx.timestamp = tx.timestamp
           /\ last.tx.fee = tx.fee
           /\ last.tx.version = tx.version
           /\ last.tx.inputs = tx.inputs
           /\ last.tx.outputs = tx.outputs
           /\ isValid(last.tx) = isValid(tx)

\* a valid signed transaction whose fee isValid() had set was read back at a
\* later time than it was built
C28_Witness ==
    /\ last.op = "fromJSON"
    /\ now > last.call[1].timestamp
    /\ last.call[1].fee > 0
    /\ isValid(last.call[1])
    /\ ~isCoinbase(last.call[1])
    /\ Len(last.tx.inputs) = 2

\* what the retarget rule gives: one less, floored at 1, when the observed
\* time is above four times the target; one more when it is below a quarter
\* of the target; the same otherwise
retargetRule(currentDifficulty, targetTime, observedAverageTime) ==
    IF observedAverageTime > 4 * targetTime
    THEN (IF currentDifficulty - 1 >= 1 THEN currentDifficulty - 1 ELSE 1)
    ELSE IF 4 * observedAverageTime < targetTime THEN currentDifficulty + 1
    ELSE currentDifficulty

\* C23 (as stated): adjustDifficulty follows the retarget rule, and for every
\* current difficulty its result is never below 1 and differs from the input
\* by at most 1
C23_RetargetAnyDifficulty ==
    last.op = "adjustDifficulty"
    => LET result == last.call[4]
       IN  /\ result = retargetRule(last.call[1], last.call[2], last.call[3])
           /\ result >= 1
           /\ result - last.call[1] \in {-1, 0, 1}

\* C23 (amended): adjustDifficulty follows the retarget rule, and for every
\* current difficulty of 1 or more its result is never below 1 and differs
\* from the input by at most 1
C23_RetargetFromOne ==
    last.op = "adjustDifficulty"
    => LET result == last.call[4]
       IN  /\ result = retargetRule(last.call[1], last.call[2], last.call[3])
           /\ last.call[1] >= 1
              => (result >= 1 /\ result - last.call[1] \in {-1, 0, 1})

\* difficulty 1 was just kept at 1 although the blocks came far too slowly
C23_Witness ==
    /\ last.op = "adjustDifficulty"
    /\ last.call[1] = 1
    /\ last.call[3] > 4 * last.call[2]
    /\ last.call[4] = 1

\* C25: getBlockReward(height) is initialReward / 2^floor(height /
\* halvingInterval) with initialReward 50 and halvingInterval 210000: 50 at
\* height 0, 25 at height 210000, and never more at a greater height
C25_EmissionSchedule ==
    /\ initialReward = 50
    /\ halvingInterval = 210000
    /\ [][ last'.op = "getBlockReward"
           => LET height == last'.call[1]
                  reward == last'.call[2]
              IN  /\ reward * Pow2(height \div 210000) = 50 * RewardScale
                  /\ height = 0 => reward = 50 * RewardScale
                  /\ height = 210000 => reward = 25 * RewardScale
                  /\ (last.op = "getBlockReward" /\ last.call[1] <= height)
                     => reward <= last.call[2] ]_vars

\* the reward at the first halving was just asked for, after the reward of the
\* block before it
C25_Witness ==
    /\ last.op = "getBlockReward"
    /\ last.call[1] = halvingInterval
    /\ last.call[2] * 2 = initialReward * RewardScale

\* C24: mining terminates: for every difficulty, mineBlock(difficulty) starts
\* from nonce 0, raises the nonce by one per attempt, and eventually returns
\* with a stored hash whose first `difficulty` digits are all zero; it has no
\* failure outcome
C24_MiningTerminates ==
    /\ [][ /\ last'.op = "mining" /\ last.op = "new Block"
              => last'.block.header.nonce = 0
           /\ last'.op = "mining" /\ last.op = "mining"
              => last'.block.header.nonce = last.block.header.nonce + 1 ]_vars
    /\ [](last.op # "RangeError")
    /\ <>(/\ last.op = "mined"
          /\ last.block.hash = blockHash(last.block.header)
          /\ meetsDifficulty(last.block.hash, last.call[1]))

\* C26: in the SimpleBlockchain ledger, after any sequence of createTransaction
\* and mineBlock calls, no address other than 'system' has a negative balance
C26_NoNegativeBalance ==
    \A address \in SimpleWallets : getBalance(address) >= 0

\* C29: in every block returned by mineBlock(minerAddress), the first
\* transaction is the only coinbase transaction, and its single output pays
\* minerAddress exactly getBlockReward(height of the new block) plus the sum
\* of the fees of the other transactions of the block
C29_CoinbasePayout ==
    (last.op = "mineBlock" /\ last.ret)
    => LET block == getLatestBlock
           fees == SumSeq([i \in 1..(Len(block.transactions) - 1) |->
                              block.transactions[i + 1].fee])
       IN  /\ coinbaseIndexes(block) = {1}
           /\ Len(block.transactions[1].outputs) = 1
           /\ block.transactions[1].outputs[1].address = last.call[1]
           /\ block.transactions[1].outputs[1].amount
                = getBlockReward(block.header.height) + fees

\* the selection rule: at most `cap` of the pool's transactions, as isValid
\* leaves them, in non-increasing fee-per-byte order with ties in pool order,
\* and no valid pooled transaction left out that pays a higher rate than one
\* that is included
feePriority(included, pool, cap) ==
    LET pooled == [i \in 1..Len(pool) |-> afterIsValid(pool[i])]
        position(tx) == CHOOSE i \in 1..Len(pool) : pool[i].id = tx.id
        leftOut == {i \in 1..Len(pool) :
                       /\ isValid(pool[i])
                       /\ \A j \in 1..Len(included) : included[j].id # pool[i].id}
    IN  /\ Len(included) <= cap
        /\ \A j \in 1..Len(included) :
              \E i \in 1..Len(pool) : pooled[i] = included[j]
        /\ \A i, j \in 1..Len(included) :
              i < j => /\ ~higherFeeRate(included[j], included[i])
                       /\ ~higherFeeRate(included[i], included[j])
                            => position(included[i]) < position(included[j])
        /\ \A i \in leftOut : \A j \in 1..Len(included) :
              ~higherFeeRate(pooled[i], included[j])

\* C30: a block produced by mineBlock holds, after the coinbase transaction,
\* at most 100 pooled transactions, in non-increasing fee-per-byte order with
\* equal rates in pool order, and every valid pooled transaction left out pays
\* no higher a rate than any included one; the same holds of the selection
\* under any cap it is asked for
C30_FeePrioritySelection ==
    [][ /\ last'.op = "mineBlock"
            => feePriority(Tail(last'.block.transactions), memPool, 100)
        /\ last'.op = "selectTransactionsForMining"
            => feePriority(last'.call[2], memPool, last'.call[1]) ]_vars

\* a selection cut short by its cap: a higher rate ahead of a lower one, two
\* equal rates side by side, and a valid transaction left in the pool
C30_Witness ==
    /\ last.op = "selectTransactionsForMining"
    /\ Len(last.call[2]) = last.call[1]
    /\ Len(SelectSeq(memPool, isValid)) > last.call[1]
    /\ \E i, j \in 1..Len(last.call[2]) :
          i < j /\ higherFeeRate(last.call[2][i], last.call[2][j])
    /\ \E i, j \in 1..Len(last.call[2]) :
          /\ i < j
          /\ ~higherFeeRate(last.call[2][i], last.call[2][j])
          /\ ~higherFeeRate(last.call[2][j], last.call[2][i])

\* C31: while the ledger is only asked to mine, the difficulty is at least 1 in
\* every state, it changes only in a mineBlock call made at a chain length that
\* is a positive multiple of the retarget interval, and it moves by no more
\* steps than blocks were mined
C31_RetargetTiming ==
    /\ [](difficulty >= 1)
    /\ [][ difficulty' # difficulty
           => /\ last'.op = "mineBlock"
              /\ Len(chain) > 0
              /\ Len(chain) % 10 = 0
              /\ difficulty' - difficulty <= Len(chain') - Len(chain)
              /\ difficulty - difficulty' <= Len(chain') - Len(chain) ]_vars

\* the coins issued so far: the genesis reward and the block reward of every
\* block mined since
issued ==
    LET genesisCoinbase == chain[1].transactions[1]
    IN  SumAmounts(genesisCoinbase.outputs)
        + SumSeq([i \in 1..(Len(chain) - 1) |-> getBlockReward(chain[i + 1].header.height)])

\* C32: in every state reached by addTransaction and mineBlock calls, the sum
\* of all address balances is the genesis reward plus the block rewards of the
\* mined blocks
C32_SupplyConservation == totalSupply = issued

\* the amounts of all unspent outputs
indexTotal(utxos) == SumSeq([i \in 1..Len(utxos) |-> utxos[i].amount])

\* the amounts the index loses to the inputs of the j-th transaction of a
\* block that is applied to the ledger
removedFor(block, j) ==
    LET before == applyTransactions([utxos |-> utxoSet, balances |-> addressBalances],
                                    SubSeq(block.transactions, 1, j - 1),
                                    block.header.height)
        after == spendInputs(before, block.transactions[j].inputs)
    IN  indexTotal(before.utxos) - indexTotal(after.utxos)

\* C33: every input of a non-coinbase transaction that addTransaction accepts
\* names an unspent output and declares that output's amount, and when a block
\* is admitted the index loses to each of its non-coinbase transactions at
\* least the sum of that transaction's outputs
C33_DeclaredAmountsAreReal ==
    [][ /\ (last'.op = "addTransaction" /\ last'.ret /\ ~isCoinbase(last'.tx))
            => \A i \in 1..Len(last'.tx.inputs) :
                  LET input == last'.tx.inputs[i]
                  IN  /\ utxoHas(utxoSet, input.txId, input.outputIndex)
                      /\ utxoGet(utxoSet, input.txId, input.outputIndex).amount = input.amount
        /\ (last'.op = "mineBlock" /\ last'.ret)
            => \A j \in 1..Len(last'.block.transactions) :
                  ~isCoinbase(last'.block.transactions[j])
                  => removedFor(last'.block, j)
                         >= SumAmounts(last'.block.transactions[j].outputs) ]_vars

\* C34: no pooled transaction is a coinbase transaction, and addTransaction
\* returns false for every coinbase transaction
C34_NoCoinbaseInPool ==
    /\ [](\A i \in 1..Len(memPool) : ~isCoinbase(memPool[i]))
    /\ [][ (last'.op = "addTransaction" /\ isCoinbase(last'.tx)) => ~last'.ret ]_vars

\* C35: addBlock admits a block only if its hash has at least as many leading
\* zero digits as the ledger's difficulty and its header declares no lower
\* difficulty than the ledger's
C35_ProofOfWorkOnAdmission ==
    [][ (last'.op = "addBlock" /\ last'.ret)
        => /\ meetsDifficulty(last'.block.hash, difficulty)
           /\ last'.block.header.difficulty >= difficulty ]_vars

\* a transaction with one field of its content changed and everything else,
\* its stored id included, left as it is: the address or the amount of an
\* output, or the amount of an input
TamperedTransactions(tx) ==
    ({[tx EXCEPT !.outputs[k].address = a] :
         k \in 1..Len(tx.outputs), a \in Addresses}
     \cup {[tx EXCEPT !.outputs[k].amount = @ + delta] :
             k \in 1..Len(tx.outputs), delta \in {-1, 1}}
     \cup {[tx EXCEPT !.inputs[k].amount = @ + delta] :
             k \in 1..Len(tx.inputs), delta \in {-1, 1}})
    \ {tx}

\* the chain with transaction i of block b replaced by tx
tamperedContent(b, i, tx) == [chain EXCEPT ![b].transactions[i] = tx]

\* C36: on every chain reached by submitting and mining, changing one field
\* of a transaction of a block at height 1 or above, with the stored ids and
\* hashes left alone, makes isChainValid() false
C36_ContentTamperEvident ==
    \A b \in 2..Len(chain) : \A i \in 1..Len(chain[b].transactions) :
        \A tx \in TamperedTransactions(chain[b].transactions[i]) :
            ~chainIsValid(tamperedContent(b, i, tx))

\* C37: a mineBlock call that returns null leaves the chain, the unspent-output
\* index, the address balances, the pool and the difficulty as they were
C37_FailedMiningChangesNothing ==
    [][ (last'.op = "mineBlock" /\ ~last'.ret)
        => UNCHANGED <<chain, utxoSet, addressBalances, memPool, difficulty>> ]_vars

----------------------------------------------------------------------------
(* The block store beside the chain in memory *)

\* an export of this ledger taken when its chain had k blocks; below the first
\* retarget length the difficulty of the ledger is the one it had then
earlierExport(k) == [exportChain EXCEPT !.chain = SubSeq(exportChain.chain, 1, k)]

\* blockchain.importChain(data) with an export of this very ledger, the current
\* one or an earlier one
ImportEarlierExport ==
    \E t \in Times :
        \E k \in 1..Len(chain) :
            LET data == earlierExport(k)
                L == importChain(data, t)
            IN  /\ Install(L)
                /\ now' = t
                /\ last' = Result("importChain", <<data>>, L.ret, NoTx, NoBlock, TRUE)

\* the local miner, blocks that arrive from elsewhere and imports of the
\* ledger's own exports; blockTimes counts the blocks admitted in the run,
\* which stop at MaxChain - 1
NextStorage ==
    \/ (Len(blockTimes) < MaxChain /\ MineBlock)
    \/ (Len(blockTimes) < MaxChain /\ AddBlock)
    \/ ImportEarlierExport

SpecStorage == Init /\ [][NextStorage]_vars

\* the rows of the block store in the order of their heights, as a restart
\* reads them
persistedBlocks ==
    LET heights == ascending(DOMAIN storedBlocks)
    IN  [i \in 1..Len(heights) |-> storedBlocks[heights[i]]]

\* C38: after every completed ledger operation the blocks of the block store,
\* in the order of their heights, are the blocks of the chain in memory, and
\* the chain a restart loads from the store has the same block hashes
C38_MemoryAndStorageAgree ==
    /\ persistedBlocks = chain
    /\ [i \in 1..Len(loadAllBlocks(now)) |-> loadAllBlocks(now)[i].hash]
           = [i \in 1..Len(chain) |-> chain[i].hash]

----------------------------------------------------------------------------
(* A restart beside the running ledger *)

\* the block times and the difficulty of the ledger a restart builds:
\* initializeBlockchain loads the stored blocks, rebuildMemoryStructures
\* collects their times and reads the difficulty of the metadata
restartedBlockTimes == rebuildBlockTimes(loadAllBlocks(now))
restartedDifficulty == metadata.difficulty

\* Blockchain.adjustDifficulty in a ledger of n blocks with the given
\* difficulty and block times
adjustDifficultyIn(n, d, times) ==
    IF n % difficultyAdjustmentInterval = 0 /\ n > 0
    THEN adjustDifficultyTo(d, targetBlockTime, SumSeq(times), Len(times))
    ELSE d

\* C39: a ledger re-initialised from storage holds the block times and the
\* difficulty of the live ledger, and its next mineBlock goes on with the
\* difficulty the live ledger would go on with
C39_RestartKeepsRetargeting ==
    /\ restartedBlockTimes = blockTimes
    /\ restartedDifficulty = difficulty
    /\ adjustDifficultyIn(Cardinality(DOMAIN storedBlocks), restartedDifficulty,
                          restartedBlockTimes)
           = adjustDifficulty

====
